---- MODULE Spec2Model ----
(***************************************************************************)
(* A model of dls_pmaclib/dls_pmacremote.py: the command channel           *)
(* (sendCommand, sendSeries), the connection semaphore and the exchange    *)
(* primitives (_sendCommand) of the Ethernet, Telnet and Serial variants.  *)
(*                                                                         *)
(* Text is kept run-length encoded: a text is a sequence of runs           *)
(* [c |-> character, n |-> count], so that a 1400-byte chunk is one or two *)
(* runs. A character is a one-character string; the control characters     *)
(* are the tokens ACK, CR, NUL and BEL.                                    *)
(***************************************************************************)
EXTENDS Integers, Sequences, FiniteSets, TLC

VARIABLES
    kind,        \* which child class the connection object is
    semaphore,   \* permits of self.semaphore (threading.Semaphore())
    n_timeouts,  \* self.n_timeouts (Serial)
    call,        \* the last completed sendCommand call: its inputs
    ret,         \* ... and what it returned or raised
    pc,          \* per caller thread: where it is in sendCommand
    job,         \* per caller thread: the command and device script in use
    gen,         \* the sendSeries generator object
    wire,        \* who has written a request and not yet read its reply
    sockTimeout, \* the timeout set on self.sock (Ethernet), in seconds
    ssh,         \* the gpascii channel of the SSH variant and its reader
    conn,        \* the connection object's own fields, and what was done
    op           \* the method call at hand: its arguments and its result

vars == <<kind, semaphore, n_timeouts, call, ret, pc, job, gen, wire,
          sockTimeout, ssh, conn, op>>

----------------------------------------------------------------------------
(* Characters and text *)

CHAR_ACK == "ACK"
CHAR_RETURN == "CR"
CHAR_NULL == "NUL"
CHAR_BELL == "BEL"
VALID_ENDS == {CHAR_ACK, CHAR_RETURN}

Digits == {"0", "1", "2", "3", "9"}

\* a text of single characters
Str(s) == [i \in 1..Len(s) |-> [c |-> s[i], n |-> 1]]
\* a run of n equal characters
Rep(ch, n) == <<[c |-> ch, n |-> n]>>

RECURSIVE TLen(_)
TLen(t) == IF t = <<>> THEN 0 ELSE t[1].n + TLen(Tail(t))

\* t[len(t) - 1]; the caller has checked, or not, that t is not empty
TLast(t) == t[Len(t)].c

\* t[len(t) - 2], for len(t) > 1
TPrev(t) ==
    IF t[Len(t)].n > 1 THEN t[Len(t)].c ELSE t[Len(t) - 1].c

\* the characters of t, every run cut to at most cap characters
RECURSIVE Expand(_, _)
Expand(t, cap) ==
    IF t = <<>> THEN <<>>
    ELSE LET r == t[1]
             m == IF r.n < cap THEN r.n ELSE cap
         IN  [i \in 1..m |-> r.c] \o Expand(Tail(t), cap)

\* str.upper() on the letters the model uses
UpperChar(ch) ==
    CASE ch = "s" -> "S"
      [] ch = "a" -> "A"
      [] ch = "v" -> "V"
      [] ch = "e" -> "E"
      [] ch = "i" -> "I"
      [] ch = "x" -> "X"
      [] OTHER -> ch

Upper(t) == [i \in 1..Len(t) |-> [c |-> UpperChar(t[i].c), n |-> t[i].n]]

\* pat in t, for a plain pattern pat (a sequence of characters)
Contains(t, pat) ==
    LET s == Expand(t, Len(pat))
    IN  \E i \in 0..(Len(s) - Len(pat)) :
            \A j \in 1..Len(pat) : s[i + j] = pat[j]

----------------------------------------------------------------------------
(* Outcomes of an exchange: what _sendCommand returns or raises *)

Return(t) == [kind |-> "return", exc |-> "", msg |-> "", text |-> t, nbuf |-> 0]
Raise(exc, msg) ==
    [kind |-> "raise", exc |-> exc, msg |-> msg, text |-> <<>>, nbuf |-> 0]
WithBuf(o, k) == [o EXCEPT !.nbuf = k]

\* In Python 3 IOError and socket.error are both OSError, and
\* IOPmacSentNullError derives from IOError: one "except" catches them all.
OSErrors == {"IOError", "IOPmacSentNullError", "socket.error",
             "SerialException"}

\* bytes.decode(): the bytes as text, unless a byte is not valid UTF-8
BadByte == "0xFF"
Decode(t) ==
    IF \E i \in 1..Len(t) : t[i].c = BadByte
    THEN Raise("UnicodeDecodeError", "invalid start byte")
    ELSE Return(t)

\* RemotePmacInterface.commandNeedsDoubleTimeout
commandNeedsDoubleTimeout(command) ==
    Contains(Upper(command), <<"S", "A", "V", "E">>)

----------------------------------------------------------------------------
(* PmacEthernetInterface._sendCommand *)

ShortLimit == 1400
MaxLenByte == 255

\* struct.pack("8B", ..., len(cmd)) + bytes(cmd): "B" takes 0..255
getresponseRequest(cmd) ==
    IF TLen(cmd) > MaxLenByte
    THEN [ok |-> FALSE, header |-> <<>>, body |-> <<>>]
    ELSE [ok |-> TRUE,
          header |-> <<64, 191, 0, 0, 0, 0, 0, TLen(cmd)>>,
          body |-> cmd]

getbufferRequest == <<192, 197, 0, 0, 0, 0, 8, 0>>

\* self.sock.recv(n): the next thing the socket delivers. An empty script
\* means nothing arrives within the socket timeout.
sockRecv(ev) ==
    IF ev = <<>>
    THEN [out |-> Raise("socket.error", "timed out"), rest |-> <<>>]
    ELSE IF ev[1].k = "data"
    THEN [out |-> Return(ev[1].d), rest |-> Tail(ev)]
    ELSE [out |-> Raise("socket.error", ev[1].k), rest |-> Tail(ev)]

\* receiveReliably: recv, repeated while it fails with errno EINTR
RECURSIVE receiveReliably(_)
receiveReliably(ev) ==
    IF ev # <<>> /\ ev[1].k = "EINTR"
    THEN receiveReliably(Tail(ev))
    ELSE sockRecv(ev)

WARNING_TRUNCATED == Rep(" WARNING: response truncated.", 1)

\* returnStr[:len(returnStr) - 1]
TDropLast(t) ==
    IF t[Len(t)].n > 1
    THEN [t EXCEPT ![Len(t)].n = @ - 1]
    ELSE SubSeq(t, 1, Len(t) - 1)

\* a multi-buffer response returned as it was received
EthWarn_Verbatim(returnStr) == returnStr

\* "truncation error in multi-buffer response": the warning goes in before
\* the last character
EthWarn(returnStr) ==
    TDropLast(returnStr) \o WARNING_TRUNCATED \o Rep(TLast(returnStr), 1)

\* the "while enterLoop" loop and what follows it; returnStr is not empty
RECURSIVE EthLoop(_, _, _)
EthLoop(returnStr, ev, nbuf) ==
    LET last_char == TLast(returnStr) IN
    IF last_char \notin VALID_ENDS
    THEN LET r == sockRecv(ev)
             tmp == r.out.text
         IN  IF r.out.kind = "raise" THEN WithBuf(r.out, nbuf + 1)
             ELSE IF TLen(tmp) < ShortLimit /\ tmp = <<>>
             THEN WithBuf(Raise("IndexError", "index out of range"), nbuf + 1)
             ELSE IF TLen(tmp) < ShortLimit /\ TLast(tmp) = CHAR_NULL
             THEN WithBuf(Raise("IOPmacSentNullError",
                                "Connection to PMAC lost"), nbuf + 1)
             ELSE IF Decode(tmp).kind = "raise"
             THEN WithBuf(Decode(tmp), nbuf + 1)
             ELSE EthLoop(returnStr \o tmp, r.rest, nbuf + 1)
    ELSE IF last_char = CHAR_RETURN
    THEN WithBuf(Raise("IOError", "PMAC communication error"), nbuf)
    ELSE IF TLen(returnStr) > 1 /\ TPrev(returnStr) # CHAR_RETURN
    THEN WithBuf(Return(EthWarn(returnStr)), nbuf)
    ELSE WithBuf(Return(returnStr), nbuf)

\* "if short_response and (last_char == CHAR_RETURN): pass", which falls
\* through to "return returnStr"
EthShortReturn_Fails(returnStr) == Raise("IOError", "PMAC communication error")
EthShortReturn(returnStr) == Return(returnStr)

\* a short response is never taken for truncated
EthTruncatedShort_Never(returnStr) == FALSE

\* "elif short_response and len(returnStr) > 1 and returnStr[len(returnStr)
\* - 2] != CHAR_RETURN": truncation error in short response
EthTruncatedShort(returnStr) ==
    /\ TLen(returnStr) < ShortLimit
    /\ TLen(returnStr) > 1
    /\ TPrev(returnStr) # CHAR_RETURN

\* the body of the inner try, up to "return returnStr"
EthTry(command, rx) ==
    IF ~getresponseRequest(command).ok
    THEN Raise("struct.error", "ubyte format requires 0 <= number <= 255")
    ELSE IF rx.fault
    THEN Raise("socket.error", "sendall")
    ELSE
    LET r == receiveReliably(rx.recv) IN
    IF r.out.kind = "raise" THEN r.out
    ELSE IF Decode(r.out.text).kind = "raise" THEN Decode(r.out.text)
    ELSE
    LET returnStr == r.out.text
        short_response == TLen(returnStr) < ShortLimit
        response_len == TLen(returnStr)
    IN
    IF returnStr = <<>>
    THEN Raise("IndexError", "string index out of range")
    ELSE
    LET last_char == TLast(returnStr) IN
    IF short_response /\ last_char = CHAR_RETURN
    THEN EthShortReturn(returnStr)
    ELSE IF short_response /\ last_char = CHAR_NULL
    THEN Raise("IOPmacSentNullError",
               "Did not respond - PMAC busy or connection lost")
    ELSE IF (short_response /\ last_char # CHAR_ACK) \/ response_len = 0
    THEN Raise("IOError", "PMAC communication error: unexpected terminator")
    ELSE IF EthTruncatedShort(returnStr)
    THEN Raise("IOError", "Truncated short response")
    ELSE EthLoop(returnStr, r.rest, 0)

\* "except socket.error: raise IOError(...)" around the whole body
EthExcept(o) ==
    IF o.kind = "raise" /\ o.exc \in OSErrors
    THEN WithBuf(Raise("IOError", "Socket communication error"), o.nbuf)
    ELSE o

Eth_sendCommand(command, rx) == EthExcept(EthTry(command, rx))

\* self.timeout, as __init__ sets it by default
timeout == 3

\* "if doubleTimeout: settimeout(self.timeout * 2) else: settimeout(
\* self.timeout)", before the request is sent
EthSetTimeout(command) ==
    IF commandNeedsDoubleTimeout(command) THEN timeout * 2 ELSE timeout

\* a "finally" that leaves the socket timeout as the exchange set it
EthFinally_NoRestore(command, cur) == cur

\* "finally: if doubleTimeout: self.sock.settimeout(self.timeout)"
EthFinally(command, cur) ==
    IF commandNeedsDoubleTimeout(command) THEN timeout ELSE cur

----------------------------------------------------------------------------
(* lstRegExps of the Telnet and Serial variants, on plain character        *)
(* sequences. MatchEnd_k(s) is the set of positions at which a match of    *)
(* pattern k can end; a pattern matches when the set is not empty.         *)

Flatten(t) == Expand(t, TLen(t))

UpperAlnum == Digits \cup {"A", "E", "I", "R", "S", "V", "X"}
Spaces == {" ", "CR", "LF"}

AllIn(s, a, b, S) == \A k \in a..b : s[k] \in S

\* -?(\d*\.)?\d+ matches exactly s[a..b]
IsDecimal(s, a, b) ==
    LET f == IF a <= b /\ s[a] = "-" THEN a + 1 ELSE a IN
    /\ f <= b
    /\ \/ AllIn(s, f, b, Digits)
       \/ \E d \in f..(b - 1) :
            /\ s[d] = "."
            /\ AllIn(s, f, d - 1, Digits)
            /\ AllIn(s, d + 1, b, Digits)

\* 0: \aERR\d{3}\r anywhere
MatchEnd0(s) ==
    {e \in 8..Len(s) :
        /\ s[e - 7] = CHAR_BELL
        /\ s[e - 6] = "E" /\ s[e - 5] = "R" /\ s[e - 4] = "R"
        /\ AllIn(s, e - 3, e - 1, Digits)
        /\ s[e] = CHAR_RETURN}

\* 1: ^\$[A-Z0-9]+\r\x06
MatchEnd1(s) ==
    {e \in 4..Len(s) :
        /\ s[1] = "$"
        /\ AllIn(s, 2, e - 2, UpperAlnum)
        /\ s[e - 1] = CHAR_RETURN /\ s[e] = CHAR_ACK}

\* 2: ^-?(\d*\.)?\d+\s*\r\x06
MatchEnd2(s) ==
    {e \in 3..Len(s) :
        /\ s[e - 1] = CHAR_RETURN /\ s[e] = CHAR_ACK
        /\ \E j \in 1..(e - 2) :
            IsDecimal(s, 1, j) /\ AllIn(s, j + 1, e - 2, Spaces)}

\* 3: ^[A-Z0-9]+\r-?(\d*\.)?\d+\r-?(\d*\.)?\d+\r-?(\d*\.)?\d+\r\x06
MatchEnd3(s) ==
    {e \in 9..Len(s) :
        /\ s[e - 1] = CHAR_RETURN /\ s[e] = CHAR_ACK
        /\ \E a \in 2..(e - 7) : \E b \in (a + 2)..(e - 5) :
           \E c \in (b + 2)..(e - 3) :
            /\ s[a] = CHAR_RETURN /\ s[b] = CHAR_RETURN /\ s[c] = CHAR_RETURN
            /\ AllIn(s, 1, a - 1, UpperAlnum)
            /\ IsDecimal(s, a + 1, b - 1)
            /\ IsDecimal(s, b + 1, c - 1)
            /\ IsDecimal(s, c + 1, e - 2)}

\* 4: \x06 anywhere
MatchEnd4(s) == {e \in 1..Len(s) : s[e] = CHAR_ACK}

MatchEnd(k, s) ==
    CASE k = 0 -> MatchEnd0(s)
      [] k = 1 -> MatchEnd1(s)
      [] k = 2 -> MatchEnd2(s)
      [] k = 3 -> MatchEnd3(s)
      [] OTHER -> MatchEnd4(s)

Min(S) == CHOOSE x \in S : \A y \in S : x <= y

\* errRegExp = re.compile(r"ERR\d{3}") of sendSeries: findall is not empty
errRegExpFinds(t) ==
    LET s == Expand(t, 6) IN
    \E i \in 0..(Len(s) - 6) :
        /\ s[i + 1] = "E" /\ s[i + 2] = "R" /\ s[i + 3] = "R"
        /\ AllIn(s, i + 4, i + 6, Digits)

----------------------------------------------------------------------------
(* PmacTelnetInterface._sendCommand *)

\* Telnet.expect(lstRegExps, timeout): after every piece of data read, the
\* first pattern of the list that matches wins and the text up to the end
\* of its match is returned; when nothing more arrives in time, (-1, buf).
RECURSIVE TnExpect(_, _)
TnExpect(buf, pieces) ==
    LET hits == {k \in 0..4 : MatchEnd(k, buf) # {}} IN
    IF hits # {}
    THEN [no |-> Min(hits),
          text |-> SubSeq(buf, 1, Min(MatchEnd(Min(hits), buf)))]
    ELSE IF pieces = <<>>
    THEN [no |-> -1, text |-> buf]
    ELSE TnExpect(buf \o Flatten(pieces[1]), Tail(pieces))

\* Bytes left on the socket by an earlier exchange are read and discarded
\* only under "if shouldWait"; otherwise expect() reads them first.
TnIncoming(shouldWait, rx) ==
    LET pieces == [i \in 1..Len(rx.recv) |-> rx.recv[i].d] IN
    IF shouldWait \/ rx.pending = <<>>
    THEN pieces
    ELSE <<rx.pending>> \o pieces

Telnet_sendCommand(command, shouldWait, rx) ==
    IF rx.fault
    THEN Raise("IOError", "Communication with PMAC broken: ")
    ELSE
    LET got == TnExpect(<<>>, TnIncoming(shouldWait, rx)) IN
    IF Decode(Str(got.text)).kind = "raise"
    THEN Raise("IOError", "Communication with PMAC broken.")
    ELSE IF got.no = -1
    THEN [Raise("IOError",
                "Timed out waiting for expected response. Got only: ")
            EXCEPT !.text = Str(got.text)]
    ELSE Return(Str(got.text))

----------------------------------------------------------------------------
(* PmacSerialInterface._sendCommand *)

\* returnStr[1:-1] is a key of PMAC_errors ("ERR001" .. "ERR019")
InPMAC_errors(s) ==
    /\ Len(s) = 8
    /\ s[2] = "E" /\ s[3] = "R" /\ s[4] = "R"
    /\ s[5] = "0"
    /\ \/ s[6] = "0" /\ s[7] \in Digits \ {"0"}
       \/ s[6] = "1" /\ s[7] \in Digits

\* what self.serial.read() delivers, byte by byte, before the read loop
\* gives up. The loop compares the bytes object read with the str "\x06",
\* which are never equal, so only the clock ends it.
RECURSIVE SerialData(_)
SerialData(ev) ==
    IF ev = <<>> THEN <<>> ELSE ev[1].d \o SerialData(Tail(ev))

Serial_sendCommand(command, rx) ==
    IF rx.fault
    THEN Raise("IOError", "Communication with PMAC broken: ")
    ELSE IF Decode(SerialData(rx.recv)).kind = "raise"
    THEN Decode(SerialData(rx.recv))
    ELSE
    LET returnStr == Flatten(SerialData(rx.recv))
        returnMatchNo == {x \in 0..4 : MatchEnd(x, returnStr) # {}}
    IN
    IF returnMatchNo = {0} /\ ~InPMAC_errors(returnStr)
    THEN Raise("KeyError", "PMAC_errors")
    ELSE Return(Str(returnStr))

\* "if time.time() - read_start > messageTimeout: self.n_timeouts + 1";
\* reached unless the exchange has raised before
Serial_n_timeouts(n, rx) ==
    IF rx.fault \/ Decode(SerialData(rx.recv)).kind = "raise" THEN n
    ELSE IF rx.over THEN n + 1 ELSE n

----------------------------------------------------------------------------
(* RemotePmacInterface.sendCommand *)

IO_PREFIX == "I/O error during comm with PMAC: "

Exchange(k, command, shouldWait, rx) ==
    CASE k = "Ethernet" -> Eth_sendCommand(command, rx)
      [] k = "Telnet" -> Telnet_sendCommand(command, shouldWait, rx)
      [] OTHER -> Serial_sendCommand(command, rx)

Success(t) ==
    [kind |-> "return", success |-> TRUE, pre |-> "", msg |-> "",
     text |-> t, exc |-> ""]
Failure(o) ==
    [kind |-> "return", success |-> FALSE, pre |-> IO_PREFIX, msg |-> o.msg,
     text |-> o.text, exc |-> ""]
Escapes(o) ==
    [kind |-> "raise", success |-> FALSE, pre |-> "", msg |-> o.msg,
     text |-> <<>>, exc |-> o.exc]

\* sendCommand without its "except IOError" clause
sendCommandResult_NoExcept(command, o) ==
    IF o.kind = "return" THEN Success(o.text) ELSE Escapes(o)

\* what sendCommand makes of the outcome o of self._sendCommand
sendCommandResult(command, o) ==
    LET doubleTimeout == commandNeedsDoubleTimeout(command) IN
    IF o.kind = "return" THEN Success(o.text)
    ELSE IF o.exc = "IOPmacSentNullError"
    THEN IF doubleTimeout THEN Success(<<>>) ELSE Failure(o)
    ELSE IF o.exc \in OSErrors THEN Failure(o)
    ELSE Escapes(o)

sendCommand(k, command, shouldWait, rx) ==
    sendCommandResult(command, Exchange(k, command, shouldWait, rx))

----------------------------------------------------------------------------
(* What the caller passes and what the device does *)

Kinds == {"Ethernet", "Telnet", "Serial"}

MaxRecv == 2       \* receive events scripted per exchange
LongCommand == 256 \* characters of the over-long command

ErrReply(a, b, c) == Str(<<CHAR_BELL, "E", "R", "R", a, b, c, CHAR_RETURN>>)

Commands ==
    { Str(<<"i", "2", "0">>),
      Str(<<"s", "a", "v", "e">>),
      Str(<<"S", "A", "V", "E">>),
      Str(<<"i", "5", "=", "1", " ", "S", "a", "V", "e">>),
      Str(<<"s", "a", "v">>),
      Rep("x", LongCommand) }

\* chunks an Ethernet recv() can deliver
EthChunks ==
    { Str(<<"1", CHAR_RETURN, CHAR_ACK>>),
      ErrReply("0", "0", "3"),
      ErrReply("0", "2", "0"),
      Str(<<CHAR_NULL>>),
      <<>>,
      Str(<<"x">>),
      Str(<<"x", CHAR_ACK>>),
      Str(<<"x", CHAR_RETURN>>),
      Str(<<CHAR_ACK>>),
      Str(<<BadByte>>),
      Rep("x", ShortLimit),
      Rep("x", ShortLimit - 2) \o Str(<<CHAR_RETURN, CHAR_ACK>>),
      Rep("x", ShortLimit - 1) \o Str(<<CHAR_RETURN>>),
      Rep("x", ShortLimit - 1) \o Str(<<CHAR_ACK>>) }

\* pieces a Telnet session or a serial port can deliver
LineChunks ==
    { Str(<<"1", CHAR_RETURN, CHAR_ACK>>),
      Str(<<"$", "A", "1", CHAR_RETURN, CHAR_ACK>>),
      Str(<<"-", "1", ".", "9", " ", CHAR_RETURN, CHAR_ACK>>),
      Str(<<"A", CHAR_RETURN, "1", CHAR_RETURN, "2", CHAR_RETURN, "3",
            CHAR_RETURN, CHAR_ACK>>),
      ErrReply("0", "0", "3"),
      ErrReply("0", "1", "9"),
      ErrReply("0", "2", "0"),
      ErrReply("0", "0", "0"),
      Str(<<"x">>),
      Str(<<CHAR_ACK>>),
      Str(<<BadByte>>) }

Data(d) == [k |-> "data", d |-> d]
SockErr(e) == [k |-> e, d |-> <<>>]

Events(k) ==
    IF k = "Ethernet"
    THEN {Data(d) : d \in EthChunks} \cup {SockErr("EINTR"), SockErr("ECONNRESET")}
    ELSE {Data(d) : d \in LineChunks}

\* a reply of 1400 bytes and more, whose second receive is interrupted or
\* brings a chunk without terminator
LongReplies ==
    {<<Data(Rep("x", ShortLimit)), e, Data(d)>> :
        e \in {SockErr("EINTR"), Data(Str(<<"x">>))}, d \in EthChunks}

Scripts(k) ==
    UNION {[1..n -> Events(k)] : n \in 0..MaxRecv}
    \cup (IF k = "Ethernet" THEN LongReplies ELSE {})

Pendings(k) ==
    IF k = "Ethernet" THEN {<<>>} ELSE {<<>>, Str(<<"9", CHAR_RETURN, CHAR_ACK>>)}

\* a link fault leaves nothing to script; only Serial reads the clock
RxSet(k) ==
    {[fault |-> FALSE, pending |-> p, recv |-> s, over |-> o] :
        p \in Pendings(k), s \in Scripts(k),
        o \in IF k = "Serial" THEN BOOLEAN ELSE {TRUE}}
    \cup {[fault |-> TRUE, pending |-> <<>>, recv |-> <<>>, over |-> TRUE]}

NoCall == [op |-> "none", command |-> <<>>, shouldWait |-> TRUE,
           rx |-> [fault |-> FALSE, pending |-> <<>>, recv |-> <<>>,
                   over |-> TRUE]]
NoRet == [kind |-> "none", success |-> FALSE, pre |-> "", msg |-> "",
          text |-> <<>>, exc |-> ""]

\* gen: the generator object sendSeries(cmdLst) returns. state is where
\* its frame stands, i the index of the command at hand, yielded what it
\* has yielded. The rest is bookkeeping for the properties: wasSuccessful
\* as sendCommand returned it, per tuple; how often the semaphore was
\* acquired and released by this generator; how often the consumer asked
\* for an item; how many commands were written.
\* ssh: the SSH variant's channel and the frame reading it. phase is where
\* connect or _sendCommand stands; stream what the device has sent and
\* recv() has not yet returned; delivered what recv() has returned since
\* the last send; response, startPos and n are the locals of
\* _sendCommand; sent counts the commands sent; result is what the last
\* _sendCommand returned (None, or a text).
NoSsh == [phase |-> "none", stream |-> <<>>, delivered |-> <<>>,
          response |-> <<>>, startPos |-> 0, n |-> 0, sent |-> 0,
          result |-> [none |-> TRUE, text |-> <<>>]]

\* None, for a field that holds an integer once it is set
None == -1

\* conn: the object's fields as __init__ leaves them; handle is self.sock,
\* self.tn, self.serial or self.client ("none" before connect creates
\* it). The rest is bookkeeping for the properties: how many "cid"
\* commands and I20..I23 queries were sent, how often the handle was
\* closed, which fields were written by a caller not holding the
\* semaphore, whether the caller at hand holds it, and where a disconnect
\* stands.
NoConn == [isConnectionOpen |-> FALSE, handle |-> "none",
           pmacModelCode |-> None, pmacModelName |-> "None",
           shortModelName |-> "None", isModelGeobrick |-> "None",
           numAxes |-> None,
           cidSent |-> 0, ivarsSent |-> 0, opens |-> 0, closes |-> 0,
           unguarded |-> {}, held |-> FALSE, pcD |-> "idle",
           hostname |-> "", port |-> None]

\* what a method returns or raises; val, flag and str hold an integer, a
\* boolean or a string result
NoResult == [kind |-> "none", exc |-> "", val |-> 0, flag |-> FALSE,
             str |-> "", cmd |-> <<>>, text |-> <<>>]
ReturnInt(v) == [NoResult EXCEPT !.kind = "return", !.val = v]
ReturnBool(b) == [NoResult EXCEPT !.kind = "return", !.flag = b]
ReturnStr(x) == [NoResult EXCEPT !.kind = "return", !.str = x]
ReturnNone == [NoResult EXCEPT !.kind = "return", !.str = "None"]
RaiseExc(exc, msg) == [NoResult EXCEPT !.kind = "raise", !.exc = exc,
                                       !.str = msg]

\* op: the call at hand. reply is the device's answer to "cid", addrs its
\* answers to I20..I23, outcome what the link does during connect.
\* what sendCommand hands back: (retStr, status); none is a retStr of None
NoReply == [success |-> FALSE, none |-> FALSE, text |-> <<>>]
Reply(text) == [success |-> TRUE, none |-> FALSE, text |-> text]
NoOp == [name |-> "none", state |-> "none", axis |-> 0,
         macroAxisStartIndex |-> 0, reply |-> NoReply, addrs |-> NoReply,
         outcome |-> "", wasOpen |-> FALSE, calls |-> 0,
         disable |-> FALSE, sent |-> <<>>, result |-> NoResult]

NoGen == [state |-> "none", cmdLst |-> <<>>, i |-> 0, yielded |-> <<>>,
          raw |-> <<>>, acquired |-> 0, released |-> 0, requests |-> 0,
          sent |-> 0]

----------------------------------------------------------------------------
(* SpecCall: one caller, one sendCommand call on a connected object. The   *)
(* initial states draw the call's arguments and the device's behaviour;    *)
(* the one step taken is the whole call.                                   *)

PendingCalls(k) ==
    {[op |-> "pending", command |-> c, shouldWait |-> w, rx |-> r] :
        c \in Commands, w \in BOOLEAN, r \in RxSet(k)}

InitCall ==
    /\ kind \in Kinds
    /\ call \in PendingCalls(kind)
    \* a caller passing shouldWait = False has acquired the semaphore itself
    /\ semaphore = IF call.shouldWait THEN 1 ELSE 0
    /\ n_timeouts = 0
    /\ ret = NoRet
    /\ pc = <<>>
    /\ job = <<>>
    /\ gen = NoGen
    /\ wire = {}
    /\ sockTimeout = timeout
    /\ ssh = NoSsh
    /\ conn = NoConn
    /\ op = NoOp

\* the call: acquire (if shouldWait), exchange, release in "finally"
CallDone(k) ==
    /\ kind = k
    /\ call.op = "pending"
    /\ call.shouldWait => semaphore > 0
    /\ ret' = sendCommand(k, call.command, call.shouldWait, call.rx)
    /\ call' = [call EXCEPT !.op = "done"]

EthernetSendCommand ==
    /\ CallDone("Ethernet")
    /\ UNCHANGED <<conn, op, sockTimeout, ssh, kind, semaphore, n_timeouts,
                   pc, job, gen, wire>>

TelnetSendCommand ==
    /\ CallDone("Telnet")
    /\ UNCHANGED <<conn, op, sockTimeout, ssh, kind, semaphore, n_timeouts,
                   pc, job, gen, wire>>

SerialSendCommand ==
    /\ CallDone("Serial")
    /\ n_timeouts' = Serial_n_timeouts(n_timeouts, call.rx)
    /\ UNCHANGED <<conn, op, sockTimeout, ssh, kind, semaphore, pc, job, gen,
                   wire>>

NextCall == EthernetSendCommand \/ TelnetSendCommand \/ SerialSendCommand

SpecCall == InitCall /\ [][NextCall]_vars

\* the outcome of the exchange of the call that was made
Outcome == Exchange(kind, call.command, call.shouldWait, call.rx)

----------------------------------------------------------------------------
(* Spec: concurrent callers of one connection. Callers 1..NCallers each    *)
(* call sendCommand(command) with shouldWait = True, one after the other;  *)
(* the consumer (thread 0) drives a sendSeries generator. A step is what   *)
(* a thread does between two points where another thread can run: the     *)
(* semaphore operations, the write of a request, the read of its reply.    *)

NCallers == 2   \* threads calling sendCommand
MaxCmds == 2    \* commands in a sendSeries list

Callers == 1..NCallers
Consumer == 0

ConcCommands == {Str(<<"i", "2", "0">>), Str(<<"s", "a", "v", "e">>)}

CmdLsts ==
    UNION {{[k \in 1..n |-> [lineNumber |-> k - 1, command |-> f[k]]] :
                f \in [1..n -> ConcCommands]} : n \in 0..MaxCmds}

Rx(recv) == [fault |-> FALSE, pending |-> <<>>, recv |-> recv, over |-> FALSE]

\* a reply, a device error, an unknown error code, an empty chunk, a
\* broken link
ConcRx ==
    { Rx(<<Data(Str(<<"1", CHAR_RETURN, CHAR_ACK>>))>>),
      Rx(<<Data(ErrReply("0", "0", "3"))>>),
      Rx(<<Data(ErrReply("0", "2", "0"))>>),
      Rx(<<Data(<<>>)>>),
      [fault |-> TRUE, pending |-> <<>>, recv |-> <<>>, over |-> FALSE] }

Init ==
    /\ kind \in Kinds
    /\ semaphore = 1
    /\ n_timeouts = 0
    /\ call = NoCall
    /\ ret = NoRet
    /\ pc = [t \in Callers |-> "idle"]
    /\ job = [t \in Callers |-> <<>>]
    /\ gen = NoGen
    /\ wire = {}
    /\ sockTimeout = timeout
    /\ ssh = NoSsh
    /\ conn = NoConn
    /\ op = NoOp

(* sendCommand(command, shouldWait=True) in thread t *)

\* The command is the caller's own until it is written: it enters the
\* shared state in Write.
Call(t) ==
    /\ pc[t] = "idle"
    /\ pc' = [pc EXCEPT ![t] = "acquire"]
    /\ UNCHANGED <<conn, op, sockTimeout, ssh, kind, semaphore, n_timeouts,
                   call, ret, job, gen, wire>>

\* "if shouldWait: self.semaphore.acquire()" without the wait
Acquire_NoWait(t) ==
    /\ pc[t] = "acquire"
    /\ semaphore' = semaphore
    /\ pc' = [pc EXCEPT ![t] = "write"]
    /\ UNCHANGED <<conn, op, sockTimeout, ssh, kind, n_timeouts, call, ret,
                   job, gen, wire>>

\* "if shouldWait: self.semaphore.acquire()"
Acquire(t) ==
    /\ pc[t] = "acquire"
    /\ semaphore > 0
    /\ semaphore' = semaphore - 1
    /\ pc' = [pc EXCEPT ![t] = "write"]
    /\ UNCHANGED <<conn, op, sockTimeout, ssh, kind, n_timeouts, call, ret,
                   job, gen, wire>>

\* the request goes out: sock.sendall / tn.write / serial.write
Write(t) ==
    /\ pc[t] = "write"
    /\ \E c \in ConcCommands :
          /\ job' = [job EXCEPT ![t] = c]
          /\ sockTimeout' = IF kind = "Ethernet" THEN EthSetTimeout(c)
                            ELSE sockTimeout
    /\ wire' = wire \cup {t}
    /\ pc' = [pc EXCEPT ![t] = "read"]
    /\ UNCHANGED <<conn, op, ssh, kind, semaphore, n_timeouts, call, ret,
                   gen>>

\* the reply is read, or reading fails; the exchange is over
Read(t) ==
    /\ pc[t] = "read"
    /\ \E rx \in ConcRx :
          sendCommand(kind, job[t], TRUE, rx).kind \in {"return", "raise"}
    /\ sockTimeout' = IF kind = "Ethernet" THEN EthFinally(job[t], sockTimeout)
                      ELSE sockTimeout
    /\ wire' = wire \ {t}
    /\ pc' = [pc EXCEPT ![t] = "release"]
    /\ job' = [job EXCEPT ![t] = <<>>]
    /\ UNCHANGED <<conn, op, ssh, kind, semaphore, n_timeouts, call, ret,
                   gen>>

\* "finally: if shouldWait: self.semaphore.release()"
Release(t) ==
    /\ pc[t] = "release"
    /\ semaphore' = semaphore + 1
    /\ pc' = [pc EXCEPT ![t] = "idle"]
    /\ UNCHANGED <<conn, op, sockTimeout, ssh, kind, n_timeouts, call, ret,
                   job, gen, wire>>

(* sendSeries(cmdLst), driven by the consumer *)

\* ret = self.sendSeries(cmdLst): a generator object; no code of it runs
SeriesCreate ==
    /\ gen.state \in {"none", "done", "closed", "dead"}
    /\ \E l \in CmdLsts :
          gen' = [NoGen EXCEPT !.state = "created", !.cmdLst = l]
    /\ UNCHANGED <<conn, op, sockTimeout, ssh, kind, semaphore, n_timeouts,
                   call, ret, pc, job, wire>>

\* next(ret): the frame starts, or goes on after its yield
SeriesNext ==
    /\ gen.state \in {"created", "suspended"}
    /\ gen' = [gen EXCEPT
                 !.requests = @ + 1,
                 !.i = IF gen.state = "suspended" THEN @ + 1 ELSE @,
                 !.state = IF gen.state = "created" THEN "acquire"
                           ELSE IF gen.i < Len(gen.cmdLst) THEN "write"
                           ELSE "finish"]
    /\ UNCHANGED <<conn, op, sockTimeout, ssh, kind, semaphore, n_timeouts,
                   call, ret, pc, job, wire>>

\* "self.semaphore.acquire()" at the top of sendSeries
GenAcquire ==
    /\ gen.state = "acquire"
    /\ semaphore > 0
    /\ semaphore' = semaphore - 1
    /\ gen' = [gen EXCEPT
                 !.acquired = @ + 1,
                 !.i = 1,
                 !.state = IF gen.cmdLst = <<>> THEN "finish" ELSE "write"]
    /\ UNCHANGED <<conn, op, sockTimeout, ssh, kind, n_timeouts, call, ret,
                   pc, job, wire>>

\* sendCommand(command, shouldWait=False): the request goes out
GenWrite ==
    /\ gen.state = "write"
    /\ wire' = wire \cup {Consumer}
    /\ gen' = [gen EXCEPT !.sent = @ + 1, !.state = "read"]
    /\ sockTimeout' = IF kind = "Ethernet"
                      THEN EthSetTimeout(gen.cmdLst[gen.i].command)
                      ELSE sockTimeout
    /\ UNCHANGED <<conn, op, ssh, kind, semaphore, n_timeouts, call, ret, pc,
                   job>>

\* "if not wasSuccessful or errRegExp.findall(pmacResponseStr)" without
\* the search for ERRnnn
SeriesTuple_NoSearch(cmd, r) ==
    [wasSuccessful |-> r.success,
     lineNumber |-> cmd.lineNumber,
     command |-> cmd.command,
     pmacResponseStr |-> [pre |-> r.pre, msg |-> r.msg, text |-> r.text]]

\* the tuple yielded for cmd when sendCommand returned r
SeriesTuple(cmd, r) ==
    [wasSuccessful |-> r.success /\ ~errRegExpFinds(r.text),
     lineNumber |-> cmd.lineNumber,
     command |-> cmd.command,
     pmacResponseStr |-> [pre |-> r.pre, msg |-> r.msg, text |-> r.text]]

\* a generator that does not wait at its yield for the consumer
GenRead_Eager ==
    /\ gen.state = "read"
    /\ \E rx \in ConcRx :
        LET cmd == gen.cmdLst[gen.i]
            r == sendCommand(kind, cmd.command, FALSE, rx)
        IN  gen' = IF r.kind = "raise"
                   THEN [gen EXCEPT !.state = "dead"]
                   ELSE [gen EXCEPT
                           !.yielded = Append(@, SeriesTuple(cmd, r)),
                           !.raw = Append(@, r.success),
                           !.i = IF gen.i < Len(gen.cmdLst) THEN @ + 1 ELSE @,
                           !.state = IF gen.i < Len(gen.cmdLst)
                                     THEN "write" ELSE "suspended"]
    /\ sockTimeout' = IF kind = "Ethernet"
                      THEN EthFinally(gen.cmdLst[gen.i].command, sockTimeout)
                      ELSE sockTimeout
    /\ wire' = wire \ {Consumer}
    /\ UNCHANGED <<conn, op, ssh, kind, semaphore, n_timeouts, call, ret, pc,
                   job>>

\* sendCommand returns and the tuple is yielded; or sendCommand raises,
\* which ends the generator where it stands
GenRead ==
    /\ gen.state = "read"
    /\ \E rx \in ConcRx :
        LET cmd == gen.cmdLst[gen.i]
            r == sendCommand(kind, cmd.command, FALSE, rx)
        IN  gen' = IF r.kind = "raise"
                   THEN [gen EXCEPT !.state = "dead"]
                   ELSE [gen EXCEPT
                           !.yielded = Append(@, SeriesTuple(cmd, r)),
                           !.raw = Append(@, r.success),
                           !.state = "suspended"]
    /\ sockTimeout' = IF kind = "Ethernet"
                      THEN EthFinally(gen.cmdLst[gen.i].command, sockTimeout)
                      ELSE sockTimeout
    /\ wire' = wire \ {Consumer}
    /\ UNCHANGED <<conn, op, ssh, kind, semaphore, n_timeouts, call, ret, pc,
                   job>>

\* the loop is over: "self.semaphore.release()" and StopIteration
GenFinish ==
    /\ gen.state = "finish"
    /\ semaphore' = semaphore + 1
    /\ gen' = [gen EXCEPT !.released = @ + 1, !.state = "done"]
    /\ UNCHANGED <<conn, op, sockTimeout, ssh, kind, n_timeouts, call, ret,
                   pc, job, wire>>

\* close() on a generator without the "except GeneratorExit" clause
SeriesClose_NoRelease ==
    /\ gen.state \in {"created", "suspended"}
    /\ gen' = [gen EXCEPT !.state = "closed"]
    /\ UNCHANGED <<conn, op, sockTimeout, ssh, kind, semaphore, n_timeouts,
                   call, ret, pc, job, wire>>

\* ret.close(): before the first next() no code runs; at the yield
\* GeneratorExit is caught, the semaphore released and the frame returns
SeriesClose ==
    /\ gen.state \in {"created", "suspended"}
    /\ semaphore' = IF gen.state = "suspended" THEN semaphore + 1
                    ELSE semaphore
    /\ gen' = [gen EXCEPT
                 !.released = IF gen.state = "suspended" THEN @ + 1 ELSE @,
                 !.state = "closed"]
    /\ UNCHANGED <<conn, op, sockTimeout, ssh, kind, n_timeouts, call, ret,
                   pc, job, wire>>

\* ret.throw(exc), exc not GeneratorExit: no clause catches it
SeriesThrow ==
    /\ gen.state \in {"created", "suspended"}
    /\ gen' = [gen EXCEPT !.state = "dead"]
    /\ UNCHANGED <<conn, op, sockTimeout, ssh, kind, semaphore, n_timeouts,
                   call, ret, pc, job, wire>>

Next ==
    \/ \E t \in Callers :
          Call(t) \/ Acquire(t) \/ Write(t) \/ Read(t) \/ Release(t)
    \/ SeriesCreate \/ SeriesNext \/ GenAcquire \/ GenWrite \/ GenRead
    \/ GenFinish \/ SeriesClose \/ SeriesThrow

Spec == Init /\ [][Next]_vars

----------------------------------------------------------------------------
(* SpecSsh: PPmacSshInterface. connect starts gpascii and waits for its    *)
(* greeting, then commands are sent one after the other. A step is one     *)
(* call on the channel (send, recv) with the code that follows it up to    *)
(* the next call. recv(nbytes) returns at least one byte and at most what  *)
(* has arrived: every split of the device's output into chunks is drawn.   *)

MaxSshCmds == 2   \* commands sent after the greeting

\* pat in s, for sequences of characters
SubstringIn(pat, s) ==
    \E i \in 0..(Len(s) - Len(pat)) :
        \A j \in 1..Len(pat) : s[i + j] = pat[j]

\* str.replace(old, new): left to right, matches do not overlap
RECURSIVE Replace(_, _, _)
Replace(s, old, new) ==
    IF Len(s) < Len(old) THEN s
    ELSE IF SubSeq(s, 1, Len(old)) = old
    THEN new \o Replace(SubSeq(s, Len(old) + 1, Len(s)), old, new)
    ELSE <<s[1]>> \o Replace(Tail(s), old, new)

ASCII == <<"A", "S", "C", "I", "I">>
SENTINEL == <<"ACK", "CR", "LF", "ACK", "CR", "LF">>

\* what gpascii prints when it has started
Greeting ==
    <<"S", "T", "D", "I", "N", " ", "O", "p", "e", "n", " ", "f", "o", "r",
      " ">> \o ASCII \o <<" ", "I", "n", "p", "u", "t", "CR", "LF">>

SshCommands == {<<"c", "i", "d">>, <<"e", "c", "h", "o", " ", "7">>}

\* the device echoes the line, answers it and ends with the sentinel
DeviceReply(command) ==
    command \o <<"CR", "LF">>
    \o (IF command = <<"c", "i", "d">> THEN <<"1", "CR", "LF">> ELSE <<>>)
    \o SENTINEL

\* response[(n - 2):] and the four replace() calls
SshPostProcess(response, n) ==
    LET r0 == SubSeq(response, n - 1, Len(response))
        r1 == Replace(r0, <<"CR", "LF", "CR", "LF">>, <<>>)
        r2 == Replace(r1, <<"CR", "LF">>, <<"CR">>)
        r3 == Replace(r2, <<"ACK">>, <<>>)
    IN  Replace(r3, <<"CR", "CR", "CR">>, <<"CR">>)

\* the loop test: "\x06\r\n\x06\r\n" in response[startPos:]
SshSentinelSeen(response, startPos) ==
    SubstringIn(SENTINEL, SubSeq(response, startPos + 1, Len(response)))

\* the test of start_gpascii: "ASCII" in response, response being the
\* chunk just received
SshGreetingSeen(response) == SubstringIn(ASCII, response)

InitSsh ==
    /\ kind = "Ssh"
    /\ semaphore = 1
    /\ n_timeouts = 0
    /\ call = NoCall
    /\ ret = NoRet
    /\ pc = <<>>
    /\ job = <<>>
    /\ gen = NoGen
    /\ wire = {}
    /\ sockTimeout = timeout
    /\ ssh = NoSsh
    /\ conn = NoConn
    /\ op = NoOp

\* start_gpascii: the shell is invoked and "gpascii -2" sent
SshStartGpascii ==
    /\ ssh.phase = "none"
    /\ ssh' = [ssh EXCEPT !.phase = "greeting", !.stream = Greeting]
    /\ UNCHANGED <<conn, op, kind, semaphore, n_timeouts, call, ret, pc, job,
                   gen, wire, sockTimeout>>

\* one turn of "while not self.gpascii_issued": recv(2048) and the test
SshGreetingRecv ==
    /\ ssh.phase = "greeting"
    /\ \E k \in 1..Len(ssh.stream) :
          LET response == SubSeq(ssh.stream, 1, k) IN
          ssh' = [ssh EXCEPT
                    !.stream = SubSeq(ssh.stream, k + 1, Len(ssh.stream)),
                    !.delivered = @ \o response,
                    !.phase = IF SshGreetingSeen(response) THEN "issued"
                              ELSE "greeting"]
    /\ UNCHANGED <<conn, op, kind, semaphore, n_timeouts, call, ret, pc, job,
                   gen, wire, sockTimeout>>

\* _sendCommand: the semaphore is acquired and command + "\r\n" sent; the
\* device's reply gets under way
SshSend ==
    /\ ssh.phase \in {"issued", "done"}
    /\ ssh.sent < MaxSshCmds
    /\ semaphore > 0
    /\ semaphore' = semaphore - 1
    /\ \E command \in SshCommands :
          ssh' = [ssh EXCEPT
                    !.phase = "first",
                    !.n = Len(command) + 2,
                    !.stream = @ \o DeviceReply(command),
                    !.delivered = <<>>,
                    !.response = <<>>,
                    !.startPos = 0,
                    !.sent = @ + 1]
    /\ UNCHANGED <<conn, op, kind, n_timeouts, call, ret, pc, job, gen, wire,
                   sockTimeout>>

\* what follows a recv in _sendCommand: the loop test and, when the loop
\* is over, the return and the release in "finally"
SshAfterRecv(response, startPos, rest, chunk) ==
    IF SshSentinelSeen(response, startPos)
    THEN /\ ssh' = [ssh EXCEPT
                      !.phase = "done",
                      !.stream = rest,
                      !.delivered = @ \o chunk,
                      !.response = response,
                      !.startPos = startPos,
                      !.result = [none |-> FALSE,
                                  text |-> SshPostProcess(response, ssh.n)]]
         /\ semaphore' = semaphore + 1
    ELSE /\ ssh' = [ssh EXCEPT
                      !.phase = "more",
                      !.stream = rest,
                      !.delivered = @ \o chunk,
                      !.response = response,
                      !.startPos = startPos]
         /\ semaphore' = semaphore

\* recv_ready() is true: the first recv(num_recv_bytes)
SshRecvFirst ==
    /\ ssh.phase = "first"
    /\ \E k \in 1..Len(ssh.stream) :
          LET chunk == SubSeq(ssh.stream, 1, k) IN
          SshAfterRecv(chunk, 0,
                       SubSeq(ssh.stream, k + 1, Len(ssh.stream)), chunk)
    /\ UNCHANGED <<conn, op, kind, n_timeouts, call, ret, pc, job, gen, wire,
                   sockTimeout>>

\* one turn of the while loop: recv, "response += response_" and
\* "startPos += len(response_)"
SshRecvMore ==
    /\ ssh.phase = "more"
    /\ \E k \in 1..Len(ssh.stream) :
          LET response_ == SubSeq(ssh.stream, 1, k) IN
          SshAfterRecv(ssh.response \o response_,
                       ssh.startPos + Len(response_),
                       SubSeq(ssh.stream, k + 1, Len(ssh.stream)),
                       response_)
    /\ UNCHANGED <<conn, op, kind, n_timeouts, call, ret, pc, job, gen, wire,
                   sockTimeout>>

\* send or recv raises: "except Exception: return None", and the release
SshRecvFails ==
    /\ ssh.phase \in {"first", "more"}
    /\ ssh' = [ssh EXCEPT
                 !.phase = "done",
                 !.result = [none |-> TRUE, text |-> <<>>]]
    /\ semaphore' = semaphore + 1
    /\ UNCHANGED <<conn, op, kind, n_timeouts, call, ret, pc, job, gen, wire,
                   sockTimeout>>

NextSsh ==
    \/ SshStartGpascii \/ SshGreetingRecv \/ SshSend
    \/ SshRecvFirst \/ SshRecvMore \/ SshRecvFails

SpecSsh == InitSsh /\ [][NextSsh]_vars

----------------------------------------------------------------------------
(* C1: sendCommand returns (reply, True) when the exchange returns the     *)
(* reply and (IO_PREFIX + message, False) when the exchange raises an I/O  *)
(* fault; in neither case does it raise.                                   *)

C1_ReplyOrFailure ==
    call.op = "done" =>
        /\ Outcome.kind = "return" => ret = Success(Outcome.text)
        /\ (Outcome.kind = "raise" /\ Outcome.exc \in OSErrors) =>
              /\ ret.kind = "return"
              /\ ret.success = FALSE
              /\ ret.pre = IO_PREFIX /\ ret.msg = Outcome.msg

C1_Witness ==
    /\ call.op = "done"
    /\ Outcome.kind = "raise" /\ Outcome.exc = "IOError"
    /\ ret.kind = "return" /\ ~ret.success

(* C2: on the NULL-terminator condition of the Ethernet exchange,          *)
(* sendCommand returns ("", True) if and only if the command contains SAVE *)
(* (any case), and (message, False) for every other command.               *)

\* the first chunk received is shorter than 1400 bytes and ends in NUL
NullCondition ==
    /\ kind = "Ethernet"
    /\ getresponseRequest(call.command).ok
    /\ ~call.rx.fault
    /\ LET r == receiveReliably(call.rx.recv) IN
        /\ r.out.kind = "return"
        /\ r.out.text # <<>>
        /\ TLen(r.out.text) < ShortLimit
        /\ TLast(r.out.text) = CHAR_NULL

C2_NullOnSave ==
    (call.op = "done" /\ NullCondition) =>
        IF commandNeedsDoubleTimeout(call.command)
        THEN ret = Success(<<>>)
        ELSE ret.kind = "return" /\ ~ret.success

(* C3: whatever the device replies, sendCommand lets no exception escape   *)
(* to its caller: an I/O problem surfaces only as (message, False).        *)

C3_NeverRaises == call.op = "done" => ret.kind # "raise"

(* C8: a device-reported error reply (bell + ERRnnn + CR) comes back from  *)
(* sendCommand as (text containing ERRnnn, True) on Ethernet, Telnet and   *)
(* Serial, never as success = False.                                       *)

\* the device answers the command with an error reply and nothing else
ErrorReplied ==
    /\ ~call.rx.fault
    /\ call.rx.pending = <<>>
    /\ kind = "Ethernet" => getresponseRequest(call.command).ok
    /\ \E a \in Digits, b \in Digits, c \in Digits :
          call.rx.recv = <<Data(ErrReply(a, b, c))>>

C8_ErrorReplyIsSuccess ==
    (call.op = "done" /\ ErrorReplied) =>
        /\ ret.kind = "return"
        /\ ret.success
        /\ errRegExpFinds(ret.text)

(* C10 as stated: on Ethernet a first chunk shorter than 1400 bytes that   *)
(* ends in a bare CR makes the exchange fail, success = False.             *)

ShortChunkEndsInCR ==
    /\ kind = "Ethernet"
    /\ getresponseRequest(call.command).ok
    /\ ~call.rx.fault
    /\ LET r == receiveReliably(call.rx.recv) IN
        /\ r.out.kind = "return"
        /\ r.out.text # <<>>
        /\ TLen(r.out.text) < ShortLimit
        /\ TLast(r.out.text) = CHAR_RETURN

C10_BareCRFails ==
    (call.op = "done" /\ ShortChunkEndsInCR) =>
        ret.kind = "return" /\ ~ret.success

(* C10 amended: on Ethernet a first chunk shorter than 1400 bytes that     *)
(* ends in CR is passed up as it is: sendCommand returns (chunk, True) and *)
(* no continuation request is sent.                                        *)

C10_BareCRPassedUp ==
    (call.op = "done" /\ ShortChunkEndsInCR) =>
        /\ ret = Success(receiveReliably(call.rx.recv).out.text)
        /\ Outcome.nbuf = 0

C10_Witness ==
    /\ call.op = "done" /\ ShortChunkEndsInCR
    /\ ret.success
    /\ ret.text = Str(<<"x", CHAR_RETURN>>)

----------------------------------------------------------------------------
(* C4: at most one exchange is in flight on the connection: between a      *)
(* caller's write and the end of its read no other caller writes, for      *)
(* every interleaving of sendCommand callers and sendSeries iterations.    *)

C4_OneExchangeInFlight == Cardinality(wire) <= 1

C4_Witness ==
    /\ wire = {Consumer}
    /\ \E t \in Callers : pc[t] = "acquire"

(* C5: a sendSeries iteration that has acquired the semaphore releases it  *)
(* exactly once, on exhaustion and on close() at a yield alike, and then   *)
(* the semaphore is free for another caller.                               *)

NoCallerHolds == \A t \in Callers : pc[t] \notin {"write", "read", "release"}

C5_ReleasedOnce ==
    /\ gen.released <= gen.acquired
    /\ gen.acquired <= 1
    /\ gen.state \in {"done", "closed"} => gen.released = gen.acquired
    /\ gen.state = "done" => gen.released = 1
    /\ (gen.state \in {"done", "closed"} /\ gen.acquired = 1 /\ NoCallerHolds)
          => semaphore = 1

C5_Witness ==
    /\ gen.state = "closed"
    /\ Len(gen.cmdLst) = 2 /\ Len(gen.yielded) = 1
    /\ gen.acquired = 1 /\ gen.released = 1
    /\ semaphore = 1

(* C6: sendSeries releases the semaphore on a fault too: when sending a    *)
(* command raises, or the consumer throws into the iteration, the          *)
(* semaphore is free afterwards.                                           *)

C6_ReleasedOnFault ==
    gen.state = "dead" => gen.released = gen.acquired

(* C7: sendSeries acquires the semaphore once, yields one tuple per        *)
(* command in list order, and sends a command only after the consumer has  *)
(* asked for the item it belongs to.                                       *)

C7_LazyInOrder ==
    /\ gen.acquired <= 1
    /\ Len(gen.yielded) <= Len(gen.cmdLst)
    /\ \A k \in 1..Len(gen.yielded) :
          /\ gen.yielded[k].lineNumber = gen.cmdLst[k].lineNumber
          /\ gen.yielded[k].command = gen.cmdLst[k].command
    /\ gen.state = "done" => Len(gen.yielded) = Len(gen.cmdLst)
    /\ gen.sent <= gen.requests
    /\ gen.sent <= Len(gen.yielded) + 1
    /\ gen.state = "suspended" =>
          gen.sent = Len(gen.yielded) /\ gen.sent = gen.requests

C7_Witness ==
    /\ gen.state = "done"
    /\ Len(gen.cmdLst) = 2 /\ Len(gen.yielded) = 2
    /\ gen.cmdLst[1].command # gen.cmdLst[2].command
    /\ gen.requests = 3 /\ gen.sent = 2

(* C9: the success flag sendSeries yields is False exactly when            *)
(* sendCommand reported failure or the response contains ERR and three     *)
(* digits; a failed line does not end the series.                          *)

C9_FailureMarker ==
    /\ \A k \in 1..Len(gen.yielded) :
          (gen.yielded[k].wasSuccessful = FALSE) <=>
             (~gen.raw[k] \/ errRegExpFinds(gen.yielded[k].pmacResponseStr.text))
    /\ gen.state = "done" =>
          /\ gen.sent = Len(gen.cmdLst)
          /\ Len(gen.yielded) = Len(gen.cmdLst)

C9_Witness ==
    /\ gen.state = "done"
    /\ Len(gen.yielded) = 2
    /\ gen.raw[1] /\ ~gen.yielded[1].wasSuccessful
    /\ gen.yielded[2].wasSuccessful

----------------------------------------------------------------------------
(* The Ethernet exchange, chunk by chunk (SpecCall) *)

\* the first receive of the call that was made, and the chunk it brought
FirstRecv == receiveReliably(call.rx.recv)
FirstChunk == FirstRecv.out.text

\* the request went out and the first receive brought a chunk
EthReplied ==
    /\ kind = "Ethernet"
    /\ getresponseRequest(call.command).ok
    /\ ~call.rx.fault
    /\ FirstRecv.out.kind = "return"

Failed == ret.kind = "return" /\ ~ret.success

(* C11: on Ethernet a first chunk shorter than 1400 bytes, at least 2      *)
(* bytes long and ending in ACK is returned verbatim, with no continuation *)
(* request, if and only if the byte before the ACK is CR; otherwise the    *)
(* truncated-short-response error is raised and the exchange fails.        *)

ShortChunkEndsInACK ==
    /\ EthReplied
    /\ Decode(FirstChunk).kind = "return"
    /\ TLen(FirstChunk) < ShortLimit
    /\ TLen(FirstChunk) >= 2
    /\ TLast(FirstChunk) = CHAR_ACK

C11_ShortAckReply ==
    (call.op = "done" /\ ShortChunkEndsInACK) =>
        IF TPrev(FirstChunk) = CHAR_RETURN
        THEN /\ ret = Success(FirstChunk)
             /\ Outcome.nbuf = 0
        ELSE /\ EthTry(call.command, call.rx)
                    = Raise("IOError", "Truncated short response")
             /\ Failed

C11_Witness ==
    /\ call.op = "done" /\ ShortChunkEndsInACK
    /\ FirstChunk = Str(<<"x", CHAR_ACK>>)
    /\ Failed

(* C12: on Ethernet a first chunk that is empty, or is shorter than 1400   *)
(* bytes and ends in a byte other than ACK, CR or NUL, fails with the      *)
(* malformed-terminator I/O error: sendCommand returns (message, False).   *)

MalformedChunk ==
    /\ EthReplied
    /\ \/ FirstChunk = <<>>
       \/ /\ TLen(FirstChunk) < ShortLimit
          /\ TLast(FirstChunk) \notin {CHAR_ACK, CHAR_RETURN, CHAR_NULL}

C12_MalformedTerminator ==
    (call.op = "done" /\ MalformedChunk) =>
        /\ EthTry(call.command, call.rx)
              = Raise("IOError",
                      "PMAC communication error: unexpected terminator")
        /\ Failed

(* C13: on Ethernet, after a first chunk of 1400 bytes or more,            *)
(* continuation requests are sent and chunks appended exactly while the    *)
(* last byte accumulated is neither ACK nor CR; a text ending in CR fails  *)
(* as a communication error; a text ending in ACK with no CR before it is  *)
(* returned with the truncation warning inserted before the ACK.           *)

LongFirstChunk ==
    /\ EthReplied
    /\ Decode(FirstChunk).kind = "return"
    /\ TLen(FirstChunk) >= ShortLimit

\* what the socket delivers after the first chunk: chunks only, none of
\* them empty, undecodable or a short chunk ending in NUL
Rest == FirstRecv.rest
CleanRest ==
    \A i \in 1..Len(Rest) :
        /\ Rest[i].k = "data"
        /\ Rest[i].d # <<>>
        /\ Decode(Rest[i].d).kind = "return"
        /\ ~(TLen(Rest[i].d) < ShortLimit /\ TLast(Rest[i].d) = CHAR_NULL)

Chunk(j) == IF j = 0 THEN FirstChunk ELSE Rest[j].d
Ends == {j \in 0..Len(Rest) : TLast(Chunk(j)) \in VALID_ENDS}

RECURSIVE Acc(_)
Acc(j) == IF j = 0 THEN FirstChunk ELSE Acc(j - 1) \o Rest[j].d

C13_ContinuationLoop ==
    (call.op = "done" /\ LongFirstChunk /\ CleanRest) =>
        IF Ends = {}
        THEN Outcome.nbuf = Len(Rest) + 1 /\ Failed
        ELSE LET j == Min(Ends)
                 acc == Acc(j)
             IN  /\ Outcome.nbuf = j
                 /\ IF TLast(acc) = CHAR_RETURN
                    THEN /\ EthTry(call.command, call.rx)
                              = WithBuf(Raise("IOError",
                                              "PMAC communication error"), j)
                         /\ Failed
                    ELSE IF TPrev(acc) # CHAR_RETURN
                    THEN ret = Success(TDropLast(acc) \o WARNING_TRUNCATED
                                       \o Str(<<CHAR_ACK>>))
                    ELSE ret = Success(acc)

C13_Witness ==
    /\ call.op = "done" /\ LongFirstChunk /\ CleanRest
    /\ Outcome.nbuf = 2
    /\ ret.success
    /\ ret.text # Acc(2)

(* C15: every receive of an Ethernet exchange, the first chunk and each    *)
(* continuation chunk alike, is repeated when a signal interrupts it: the  *)
(* call ends as it would have ended without the interruptions.             *)

RECURSIVE NoEINTR(_)
NoEINTR(ev) ==
    IF ev = <<>> THEN <<>>
    ELSE IF ev[1].k = "EINTR" THEN NoEINTR(Tail(ev))
    ELSE <<ev[1]>> \o NoEINTR(Tail(ev))

C15_InterruptedRecvRetried ==
    (call.op = "done" /\ kind = "Ethernet") =>
        ret = sendCommand(kind, call.command, call.shouldWait,
                          [call.rx EXCEPT !.recv = NoEINTR(call.rx.recv)])

(* C16: for every command the Ethernet write request is the 8 bytes 0x40,  *)
(* 0xBF, 0, 0, 0, 0, 0, L and then the command, L being the length of the  *)
(* command in one byte; a command of any length is framed.                 *)

C16_FramesAnyLength ==
    (call.op = "done" /\ kind = "Ethernet") =>
        LET req == getresponseRequest(call.command) IN
        /\ req.ok
        /\ req.header = <<64, 191, 0, 0, 0, 0, 0, TLen(call.command)>>
        /\ req.header[8] \in 0..MaxLenByte
        /\ req.body = call.command

----------------------------------------------------------------------------
(* C14: on Ethernet the socket timeout is twice the configured timeout     *)
(* while an exchange whose command contains SAVE is in flight, the         *)
(* configured timeout while any other exchange is in flight, and the       *)
(* configured timeout again once the exchange has returned or raised.      *)

\* the command of the exchange thread t has in flight
InFlight(t) == IF t = Consumer THEN gen.cmdLst[gen.i].command ELSE job[t]

C14_TimeoutDoubledForSave ==
    kind = "Ethernet" =>
        /\ \A t \in wire :
              sockTimeout = IF commandNeedsDoubleTimeout(InFlight(t))
                            THEN 2 * timeout ELSE timeout
        /\ wire = {} => sockTimeout = timeout

C14_Witness ==
    /\ kind = "Ethernet"
    /\ \E t \in Callers :
          /\ wire = {t}
          /\ job[t] = Str(<<"s", "a", "v", "e">>)
    /\ sockTimeout = 2 * timeout
    /\ gen.state = "done" /\ Len(gen.yielded) = 1

----------------------------------------------------------------------------
(* C17: on Telnet, bytes left over from an earlier exchange are drained    *)
(* before the command is written, for sendCommand and for the commands of  *)
(* a sendSeries batch (shouldWait = False) alike: the call ends as it      *)
(* would have ended with nothing left over.                                *)

C17_NoStaleReply ==
    (call.op = "done" /\ kind = "Telnet" /\ ~call.rx.fault) =>
        ret = sendCommand(kind, call.command, call.shouldWait,
                          [call.rx EXCEPT !.pending = <<>>])

(* C18: on every transport an exchange whose reply is not terminated       *)
(* within the timeout window is reported as failure: sendCommand returns   *)
(* success = False, on Telnet with the partial text, on Serial after       *)
(* n_timeouts has gone up by exactly one.                                  *)

TimedOut ==
    /\ ~call.rx.fault
    /\ CASE kind = "Ethernet" ->
                /\ getresponseRequest(call.command).ok
                /\ EthTry(call.command, call.rx).kind = "raise"
                /\ EthTry(call.command, call.rx).msg = "timed out"
         [] kind = "Telnet" ->
                LET got == TnExpect(<<>>, TnIncoming(call.shouldWait, call.rx))
                IN  got.no = -1 /\ Decode(Str(got.text)).kind = "return"
         [] OTHER ->
                /\ call.rx.over
                /\ Decode(SerialData(call.rx.recv)).kind = "return"
                /\ MatchEnd4(Flatten(SerialData(call.rx.recv))) = {}

C18_TimeoutIsFailure ==
    (call.op = "done" /\ TimedOut) =>
        /\ Failed
        /\ kind = "Telnet" =>
              ret.text = Str(TnExpect(<<>>, TnIncoming(call.shouldWait,
                                                      call.rx)).text)
        /\ kind = "Serial" => n_timeouts = 1

----------------------------------------------------------------------------
(* C19: the SSH exchange accumulates the reply over successive receives    *)
(* and completes as soon as the accumulated buffer contains the sentinel   *)
(* ACK CR LF ACK CR LF anywhere, however the reply is split into chunks:   *)
(* it never goes on receiving with the sentinel in the buffer.             *)

C19_SentinelEndsExchange ==
    ssh.phase = "more" => ~SubstringIn(SENTINEL, ssh.response)

(* C20: after the gpascii start line no command is sent until the greeting *)
(* containing "ASCII" has been observed, and the wait is over once the     *)
(* device has delivered that greeting, however it is split into chunks.    *)

C20_GreetingEndsWait ==
    /\ ssh.sent > 0 => ssh.phase \notin {"none", "greeting"}
    /\ ssh.phase = "greeting" => ~SubstringIn(ASCII, ssh.delivered)

----------------------------------------------------------------------------
(* The cached getters of RemotePmacInterface and PPmacSshInterface. Each   *)
(* operator takes the object's fields c and what the device would answer,  *)
(* and gives the fields afterwards and the result: [c |-> ..., r |-> ...]. *)

AllKinds == Kinds \cup {"Ssh"}

DecDigits == {"0", "1", "2", "3", "4", "5", "6", "7", "8", "9"}

DigitVal(ch) ==
    CASE ch = "0" -> 0 [] ch = "1" -> 1 [] ch = "2" -> 2 [] ch = "3" -> 3
      [] ch = "4" -> 4 [] ch = "5" -> 5 [] ch = "6" -> 6 [] ch = "7" -> 7
      [] ch = "8" -> 8 [] OTHER -> 9

\* the value of a run of decimal digits
RECURSIVE DecVal(_)
DecVal(s) ==
    IF s = <<>> THEN 0
    ELSE 10 * DecVal(SubSeq(s, 1, Len(s) - 1)) + DigitVal(s[Len(s)])

\* re.compile(r"^(\d+)\r\x06$").match(retStr), and int(mo.group(1))
MatchCid(s) ==
    /\ Len(s) >= 3
    /\ s[Len(s) - 1] = CHAR_RETURN /\ s[Len(s)] = CHAR_ACK
    /\ \A i \in 1..(Len(s) - 2) : s[i] \in DecDigits

\* str.strip() of whitespace at both ends
RECURSIVE Strip(_)
Strip(s) ==
    IF s = <<>> THEN s
    ELSE IF s[1] \in Spaces THEN Strip(Tail(s))
    ELSE IF s[Len(s)] \in Spaces THEN Strip(SubSeq(s, 1, Len(s) - 1))
    ELSE s

\* int(retStr) of the SSH variant: None is a TypeError, text that is not
\* a decimal number between whitespace a ValueError
PyInt(reply) ==
    IF reply.none THEN RaiseExc("TypeError", "int() argument")
    ELSE LET t == Strip(reply.text) IN
         IF t # <<>> /\ \A i \in 1..Len(t) : t[i] \in DecDigits
         THEN ReturnInt(DecVal(t))
         ELSE RaiseExc("ValueError", "invalid literal for int()")

\* the guard a field is written under: a write by a caller that does not
\* hold the semaphore is noted
Wrote(c, field) ==
    IF c.held THEN c ELSE [c EXCEPT !.unguarded = @ \cup {field}]

\* RemotePmacInterface.getPmacModelCode
BaseGetPmacModelCode(c, cid) ==
    IF c.pmacModelCode = None
    THEN IF ~cid.success
         THEN [c |-> [c EXCEPT !.cidSent = @ + 1],
               r |-> RaiseExc("IOError", "Error talking to PMAC")]
         ELSE IF cid.none \/ ~MatchCid(cid.text)
         THEN [c |-> [c EXCEPT !.cidSent = @ + 1],
               r |-> RaiseExc(IF cid.none THEN "TypeError" ELSE "ValueError",
                              "Received malformed input from PMAC")]
         ELSE [c |-> Wrote([c EXCEPT !.cidSent = @ + 1,
                                     !.pmacModelCode =
                                         DecVal(SubSeq(cid.text, 1,
                                                       Len(cid.text) - 2))],
                           "pmacModelCode"),
               r |-> ReturnInt(DecVal(SubSeq(cid.text, 1,
                                             Len(cid.text) - 2)))]
    ELSE [c |-> c, r |-> ReturnInt(c.pmacModelCode)]

\* PPmacSshInterface.getPmacModelCode once int(retStr) gave v: its
\* "return" stands inside the "if"
SshGetPmacModelCode_int(c, v) ==
    IF v.kind = "raise" THEN [c |-> c, r |-> v]
    ELSE [c |-> Wrote([c EXCEPT !.pmacModelCode = v.val], "pmacModelCode"),
          r |-> v]

\* PPmacSshInterface.getPmacModelCode
SshGetPmacModelCode(c, cid) ==
    IF c.pmacModelCode = None
    THEN IF ~cid.success
         THEN [c |-> [c EXCEPT !.cidSent = @ + 1],
               r |-> RaiseExc("IOError", "Error talking to Power PMAC")]
         ELSE SshGetPmacModelCode_int([c EXCEPT !.cidSent = @ + 1],
                                      PyInt(cid))
    ELSE [c |-> c, r |-> ReturnNone]

getPmacModelCode(k, c, cid) ==
    IF k = "Ssh" THEN SshGetPmacModelCode(c, cid)
    ELSE BaseGetPmacModelCode(c, cid)

\* modelNamesByCode of getPmacModel, per class; "" stands for KeyError
modelNamesByCode(k, code) ==
    IF k = "Ssh"
    THEN (IF code = 604020 THEN "Power PMAC UMAC" ELSE "")
    ELSE CASE code = 602404 -> "Turbo PMAC2 Clipper"
           [] code = 602413 -> "Turbo PMAC2-VME"
           [] code = 603382 -> "Geo Brick (3U Turbo PMAC2)"
           [] OTHER -> ""

shortModelNamesByCode(code) ==
    CASE code = 602404 -> "Clipper"
      [] code = 602413 -> "Pmac"
      [] code = 603382 -> "Geobrick"
      [] OTHER -> ""

\* what getPmacModelCode handed back, as a dictionary key: the SSH
\* variant's None is a key no table holds
KeyOf(r) == IF r.str = "None" THEN None ELSE r.val

\* getPmacModel once getPmacModelCode came back as g
getPmacModel_code(k, g) ==
    IF g.r.kind = "raise" THEN g
    ELSE IF modelNamesByCode(k, KeyOf(g.r)) = ""
    THEN [c |-> g.c,
          r |-> RaiseExc("ValueError",
                         IF k = "Ssh" THEN "Unsupported Power PMAC model"
                         ELSE "Unsupported PMAC model")]
    ELSE [c |-> Wrote([g.c EXCEPT !.pmacModelName =
                                      modelNamesByCode(k, KeyOf(g.r))],
                      "pmacModelName"),
          r |-> ReturnStr(modelNamesByCode(k, KeyOf(g.r)))]

\* getPmacModel of both classes
getPmacModel(k, c, cid) ==
    IF c.pmacModelName = "None"
    THEN getPmacModel_code(k, getPmacModelCode(k, c, cid))
    ELSE [c |-> c, r |-> ReturnStr(c.pmacModelName)]

\* the dictionary lookup of getShortModelName and its KeyError branch
shortNameOf(key) ==
    IF shortModelNamesByCode(key) = "" THEN "Pmac"
    ELSE shortModelNamesByCode(key)

\* getShortModelName once getPmacModelCode came back as g
getShortModelName_code(g) ==
    IF g.r.kind = "raise" THEN g
    ELSE [c |-> Wrote([g.c EXCEPT !.shortModelName = shortNameOf(KeyOf(g.r))],
                      "shortModelName"),
          r |-> ReturnStr(shortNameOf(KeyOf(g.r)))]

\* RemotePmacInterface.getShortModelName
getShortModelName(k, c, cid) ==
    IF c.shortModelName = "None"
    THEN getShortModelName_code(getPmacModelCode(k, c, cid))
    ELSE [c |-> c, r |-> ReturnStr(c.shortModelName)]

geobrickModelCodes == {602404, 603382}

\* isModelGeobrick once getPmacModelCode came back as g
isModelGeobrick_code(g) ==
    IF g.r.kind = "raise" THEN g
    ELSE [c |-> Wrote([g.c EXCEPT !.isModelGeobrick =
                                      IF KeyOf(g.r) \in geobrickModelCodes
                                      THEN "True" ELSE "False"],
                      "isModelGeobrick"),
          r |-> ReturnBool(KeyOf(g.r) \in geobrickModelCodes)]

\* RemotePmacInterface.isModelGeobrick
isModelGeobrick(k, c, cid) ==
    IF c.isModelGeobrick = "None"
    THEN isModelGeobrick_code(getPmacModelCode(k, c, cid))
    ELSE [c |-> c, r |-> ReturnBool(c.isModelGeobrick = "True")]

\* retStr.split("\r"), on a text whose values are single tokens: the
\* pieces between the CRs
RECURSIVE SplitCR(_)
SplitCR(s) ==
    IF \A i \in 1..Len(s) : s[i] # CHAR_RETURN THEN <<s>>
    ELSE <<SubSeq(s, 1, Min({j \in 1..Len(s) : s[j] = CHAR_RETURN}) - 1)>>
           \o SplitCR(SubSeq(s, Min({j \in 1..Len(s) : s[j] = CHAR_RETURN})
                                   + 1, Len(s)))

\* list[:-1]
DropLastItem(list) == SubSeq(list, 1, Len(list) - 1)

\* getIVars(0, [20, 21, 22, 23]): one command, "i20 i21 i22 i23 "
getIVars(iv) ==
    IF iv.success
    THEN [kind |-> "return", list |-> DropLastItem(SplitCR(iv.text))]
    ELSE [kind |-> "raise", list |-> <<>>]

\* _getNumberOfMacroStationAxes once getIVars came back: 8 for every
\* address that is not "$0"
getNumberOfMacroStationAxes_ivars(macroIcAddresses) ==
    IF macroIcAddresses.kind = "raise"
    THEN RaiseExc("IOError", "Cannot retrieve variable")
    ELSE IF Len(macroIcAddresses.list) < 4
    THEN RaiseExc("IndexError", "list index out of range")
    ELSE ReturnInt(8 * Cardinality({i \in 1..4 :
                                      macroIcAddresses.list[i] # <<"$0">>}))

getNumberOfMacroStationAxes(iv) ==
    getNumberOfMacroStationAxes_ivars(getIVars(iv))

\* getNumberOfAxes once isModelGeobrick came back as g and
\* _getNumberOfMacroStationAxes as m
getNumberOfAxes_macro(g, m) ==
    IF g.r.kind = "raise" THEN g
    ELSE IF m.kind = "raise"
    THEN [c |-> [g.c EXCEPT !.ivarsSent = @ + 1], r |-> m]
    ELSE [c |-> Wrote([g.c EXCEPT !.ivarsSent = @ + 1,
                                  !.numAxes = IF g.r.flag THEN 8 + m.val
                                              ELSE m.val],
                      "numAxes"),
          r |-> ReturnInt(IF g.r.flag THEN 8 + m.val ELSE m.val)]

\* RemotePmacInterface.getNumberOfAxes
getNumberOfAxes(k, c, cid, iv) ==
    IF c.numAxes = None
    THEN getNumberOfAxes_macro(isModelGeobrick(k, c, cid),
                               getNumberOfMacroStationAxes(iv))
    ELSE [c |-> c, r |-> ReturnInt(c.numAxes)]

\* checkAxisIsInRange with the comparison "axis >= count"
checkAxisIsInRange_axes_Exclusive(g, axis) ==
    IF g.r.kind = "raise" THEN g
    ELSE IF axis >= g.r.val
    THEN [c |-> g.c,
          r |-> RaiseExc("ValueError", "Requested axis out of range")]
    ELSE [c |-> g.c, r |-> ReturnNone]

\* checkAxisIsInRange once getNumberOfAxes came back as g
checkAxisIsInRange_axes(g, axis) ==
    IF g.r.kind = "raise" THEN g
    ELSE IF axis > g.r.val
    THEN [c |-> g.c,
          r |-> RaiseExc("ValueError", "Requested axis out of range")]
    ELSE [c |-> g.c, r |-> ReturnNone]

\* RemotePmacInterface.checkAxisIsInRange
checkAxisIsInRange(k, c, cid, iv, axis) ==
    IF axis < 0
    THEN [c |-> c, r |-> RaiseExc("ValueError", "Asking for a negative axis")]
    ELSE checkAxisIsInRange_axes(getNumberOfAxes(k, c, cid, iv), axis)

MACRO_STATION_LOOKUP_TABLE ==
    <<0, 1, 4, 5, 8, 9, 12, 13, 16, 17, 20, 21, 24, 25, 28, 29, 32, 33,
      36, 37, 40, 41, 44, 45, 48, 49, 52, 53, 56, 57, 60, 61, 64, 65>>

\* list[i] of Python: a negative index counts from the end
PyIndex(list, i) ==
    IF i >= 0 /\ i < Len(list) THEN ReturnInt(list[i + 1])
    ELSE IF i < 0 /\ -i <= Len(list) THEN ReturnInt(list[Len(list) + i + 1])
    ELSE RaiseExc("IndexError", "list index out of range")

\* e + offset, where the lookup e may have raised
PlusOffset(e, offset) ==
    IF e.kind = "raise" THEN e ELSE ReturnInt(e.val + offset)

\* getAxisMacroStationNumber that takes the Geobrick's table entry at
\* axis-8
getAxisMacroStationNumber_model_OffByOne(g, axis, macroAxisStartIndex) ==
    IF g.r.kind = "raise" THEN g
    ELSE IF ~g.r.flag
    THEN [c |-> g.c, r |-> PyIndex(MACRO_STATION_LOOKUP_TABLE, axis - 1)]
    ELSE IF axis <= 8
    THEN [c |-> g.c,
          r |-> RaiseExc("ValueError", "Axis is not on the MACRO ring")]
    ELSE [c |-> g.c,
          r |-> PlusOffset(PyIndex(MACRO_STATION_LOOKUP_TABLE, axis - 8),
                           macroAxisStartIndex)]

\* getAxisMacroStationNumber once isModelGeobrick came back as g
getAxisMacroStationNumber_model(g, axis, macroAxisStartIndex) ==
    IF g.r.kind = "raise" THEN g
    ELSE IF ~g.r.flag
    THEN [c |-> g.c, r |-> PyIndex(MACRO_STATION_LOOKUP_TABLE, axis - 1)]
    ELSE IF axis <= 8
    THEN [c |-> g.c,
          r |-> RaiseExc("ValueError", "Axis is not on the MACRO ring")]
    ELSE [c |-> g.c,
          r |-> PlusOffset(PyIndex(MACRO_STATION_LOOKUP_TABLE,
                                   (axis - 8) - 1),
                           macroAxisStartIndex)]

\* getAxisMacroStationNumber once checkAxisIsInRange came back as chk
getAxisMacroStationNumber_checked(k, chk, cid, axis, macroAxisStartIndex) ==
    IF chk.r.kind = "raise" THEN chk
    ELSE getAxisMacroStationNumber_model(isModelGeobrick(k, chk.c, cid),
                                         axis, macroAxisStartIndex)

\* RemotePmacInterface.getAxisMacroStationNumber
getAxisMacroStationNumber(k, c, cid, iv, axis, macroAxisStartIndex) ==
    getAxisMacroStationNumber_checked(
        k, checkAxisIsInRange(k, c, cid, iv, axis), cid, axis,
        macroAxisStartIndex)

\* isMacroStationAxis that counts axis 8 of a Geobrick as a macro axis
isMacroStationAxis_model_From8(g, axis) ==
    IF g.r.kind = "raise" THEN g
    ELSE IF ~g.r.flag THEN [c |-> g.c, r |-> ReturnBool(TRUE)]
    ELSE [c |-> g.c, r |-> ReturnBool(axis >= 8)]

\* isMacroStationAxis once isModelGeobrick came back as g
isMacroStationAxis_model(g, axis) ==
    IF g.r.kind = "raise" THEN g
    ELSE IF ~g.r.flag THEN [c |-> g.c, r |-> ReturnBool(TRUE)]
    ELSE [c |-> g.c, r |-> ReturnBool(axis > 8)]

\* isMacroStationAxis once checkAxisIsInRange came back as chk
isMacroStationAxis_checked(k, chk, cid, axis) ==
    IF chk.r.kind = "raise" THEN chk
    ELSE isMacroStationAxis_model(isModelGeobrick(k, chk.c, cid), axis)

\* RemotePmacInterface.isMacroStationAxis
isMacroStationAxis(k, c, cid, iv, axis) ==
    isMacroStationAxis_checked(k, checkAxisIsInRange(k, c, cid, iv, axis),
                               cid, axis)

\* 7000 + m * 100 + n * 10; // and % of Python round towards minus
\* infinity, as \div and % do
I7000PlusVarsBase(axis) ==
    7000 + ((axis - 1) \div 4) * 100 + (((axis - 1) % 4) + 1) * 10

\* getOnboardAxisI7000PlusVarsBase once isMacroStationAxis came back as g
getOnboardAxisI7000PlusVarsBase_macro(g, axis) ==
    IF g.r.kind = "raise" THEN g
    ELSE IF g.r.flag
    THEN [c |-> g.c,
          r |-> RaiseExc("ValueError", "Axis is not an onboard axis")]
    ELSE [c |-> g.c, r |-> ReturnInt(I7000PlusVarsBase(axis))]

\* getOnboardAxisI7000PlusVarsBase once checkAxisIsInRange came back
getOnboardAxisI7000PlusVarsBase_checked(k, chk, cid, iv, axis) ==
    IF chk.r.kind = "raise" THEN chk
    ELSE getOnboardAxisI7000PlusVarsBase_macro(
             isMacroStationAxis(k, chk.c, cid, iv, axis), axis)

\* RemotePmacInterface.getOnboardAxisI7000PlusVarsBase
getOnboardAxisI7000PlusVarsBase(k, c, cid, iv, axis) ==
    getOnboardAxisI7000PlusVarsBase_checked(
        k, checkAxisIsInRange(k, c, cid, iv, axis), cid, iv, axis)

----------------------------------------------------------------------------
(* The axis functions, called on one object whose device answers "cid" and *)
(* "i20 i21 i22 i23 " the same way every time.                             *)

MaxAxis == 41
MaxCalls == 2

\* the digits of a model code
Digits602404 == <<"6", "0", "2", "4", "0", "4">>
Digits602413 == <<"6", "0", "2", "4", "1", "3">>
Digits603382 == <<"6", "0", "3", "3", "8", "2">>
Digits604020 == <<"6", "0", "4", "0", "2", "0">>

CidReplies(k) ==
    IF k = "Ssh"
    THEN {Reply(<<"CR">> \o Digits604020 \o <<"CR">>),
          Reply(<<"CR">> \o Digits603382 \o <<"CR">>),
          Reply(<<"CR", "x", "CR">>),
          [NoReply EXCEPT !.success = TRUE, !.none = TRUE],
          NoReply}
    ELSE {Reply(Digits602404 \o <<CHAR_RETURN, CHAR_ACK>>),
          Reply(Digits602413 \o <<CHAR_RETURN, CHAR_ACK>>),
          Reply(Digits603382 \o <<CHAR_RETURN, CHAR_ACK>>),
          Reply(Digits604020 \o <<CHAR_RETURN, CHAR_ACK>>),
          Reply(Digits602413),
          NoReply}

\* the ways a PMAC prints an I-variable that holds an address
AddrTexts == {"$0", "$78400", "0"}

IVarsText(a) ==
    <<a[1], CHAR_RETURN, a[2], CHAR_RETURN, a[3], CHAR_RETURN,
      a[4], CHAR_RETURN, CHAR_ACK>>

IVarsReplies ==
    {Reply(IVarsText(a)) : a \in [1..4 -> {"$0", "$78400"}]}
      \cup {Reply(IVarsText([i \in 1..4 |-> "0"])),
            Reply(IVarsText(<<"$78400", "0", "$0", "$0">>)),
            Reply(<<CHAR_BELL, "ERR003", CHAR_RETURN>>),
            NoReply}

InitAxis ==
    /\ kind \in Kinds
    /\ semaphore = 1
    /\ n_timeouts = 0
    /\ call = NoCall
    /\ ret = NoRet
    /\ pc = [p \in {} |-> "idle"]
    /\ job = [p \in {} |-> NoCall]
    /\ gen = NoGen
    /\ wire = <<>>
    /\ sockTimeout = timeout
    /\ ssh = NoSsh
    /\ conn = [NoConn EXCEPT !.isConnectionOpen = TRUE, !.handle = "open"]
    /\ \E cid \in CidReplies(kind), iv \in IVarsReplies,
          axis \in (-1)..MaxAxis, start \in {0, 16} :
          op = [NoOp EXCEPT !.state = "ready", !.reply = cid, !.addrs = iv,
                            !.axis = axis, !.macroAxisStartIndex = start]

\* one call of an axis function: the fields and the result it leaves
AxisCall(name, g) ==
    /\ op.state = "ready"
    /\ op.calls < MaxCalls
    /\ conn' = g.c
    /\ op' = [op EXCEPT !.name = name, !.calls = @ + 1, !.result = g.r]
    /\ UNCHANGED <<kind, semaphore, n_timeouts, call, ret, pc, job, gen,
                   wire, sockTimeout, ssh>>

AxGetNumberOfAxes ==
    AxisCall("getNumberOfAxes", getNumberOfAxes(kind, conn, op.reply, op.addrs))

AxCheckAxisIsInRange ==
    AxisCall("checkAxisIsInRange",
             checkAxisIsInRange(kind, conn, op.reply, op.addrs, op.axis))

AxGetAxisMacroStationNumber ==
    AxisCall("getAxisMacroStationNumber",
             getAxisMacroStationNumber(kind, conn, op.reply, op.addrs,
                                       op.axis, op.macroAxisStartIndex))

AxIsMacroStationAxis ==
    AxisCall("isMacroStationAxis",
             isMacroStationAxis(kind, conn, op.reply, op.addrs, op.axis))

AxGetOnboardAxisI7000PlusVarsBase ==
    AxisCall("getOnboardAxisI7000PlusVarsBase",
             getOnboardAxisI7000PlusVarsBase(kind, conn, op.reply, op.addrs,
                                             op.axis))

NextAxis ==
    \/ AxGetNumberOfAxes
    \/ AxCheckAxisIsInRange
    \/ AxGetAxisMacroStationNumber
    \/ AxIsMacroStationAxis
    \/ AxGetOnboardAxisI7000PlusVarsBase

SpecAxis == InitAxis /\ [][NextAxis]_vars

----------------------------------------------------------------------------
(* Claims about the axis functions, under SpecAxis.                        *)

\* the last call was of this function
Called(name) == op.name = name
Returned(name) == Called(name) /\ op.result.kind = "return"
Raised(name) == Called(name) /\ op.result.kind = "raise"

\* the axis count and the model are known to the object
AxesKnown == conn.numAxes # None /\ conn.isModelGeobrick # "None"
Geobrick == conn.isModelGeobrick = "True"

\* the I-variable text prints the value zero
IsZeroText(tok) == tok \in {"$0", "0"}

\* the reply to "i20 i21 i22 i23 " holds four values and the ACK
FourReplies ==
    /\ op.addrs.success
    /\ Len(op.addrs.text) = 9
    /\ \A i \in 1..4 : op.addrs.text[2 * i] = CHAR_RETURN
    /\ op.addrs.text[9] = CHAR_ACK

NonZeroReplies ==
    Cardinality({i \in 1..4 : ~IsZeroText(op.addrs.text[2 * i - 1])})

\* C26: getNumberOfAxes returns 8*k on a non-Geobrick and 8 + 8*k on a
\* Geobrick, k being the number of the four replies to the batched query
\* of I20..I23 that are not zero.
C26_AxisCount ==
    (Returned("getNumberOfAxes") /\ FourReplies)
        => op.result.val = (IF Geobrick THEN 8 ELSE 0) + 8 * NonZeroReplies

\* C27: checkAxisIsInRange raises for every axis below 0 and for every
\* axis above the reported axis count, and returns None for every other
\* axis.
C27_RangeCheck ==
    Called("checkAxisIsInRange")
        => /\ op.axis < 0 => op.result.exc = "ValueError"
           /\ (op.axis >= 0 /\ conn.numAxes # None)
                 => IF op.axis > conn.numAxes
                    THEN op.result.exc = "ValueError"
                    ELSE op.result = ReturnNone

C27_Witness ==
    /\ Called("checkAxisIsInRange")
    /\ op.axis = conn.numAxes /\ op.axis > 0
    /\ op.result = ReturnNone

\* entry j, counted from 0, of the sequence 0, 1, 4, 5, ..., 64, 65
StationAt(j) == 4 * (j \div 2) + (j % 2)

\* C28: on a Geobrick getAxisMacroStationNumber raises for every axis 1..8
\* and gives entry axis-9 of the table plus the start offset for every
\* in-range axis from 9 on; on a non-Geobrick it gives entry axis-1; the
\* table is the 34 entries 0, 1, 4, 5, ..., 64, 65.
C28_MacroStationNumber ==
    /\ Len(MACRO_STATION_LOOKUP_TABLE) = 34
    /\ (Called("getAxisMacroStationNumber") /\ AxesKnown)
          => /\ (Geobrick /\ op.axis \in 1..8)
                   => (op.result.kind = "raise"
                         /\ op.result.exc = "ValueError")
             /\ (Geobrick /\ op.axis \in 9..conn.numAxes)
                   => op.result = ReturnInt(StationAt(op.axis - 9)
                                              + op.macroAxisStartIndex)
             /\ (~Geobrick /\ op.axis \in 1..conn.numAxes)
                   => op.result = ReturnInt(StationAt(op.axis - 1))

C28_Witness ==
    /\ Called("getAxisMacroStationNumber")
    /\ Geobrick /\ op.axis = 10 /\ op.macroAxisStartIndex = 16
    /\ op.result = ReturnInt(17)

\* C29: isMacroStationAxis is True for every valid axis of a non-Geobrick
\* and, on a Geobrick, True exactly for the valid axes above 8; it is True
\* exactly when getAxisMacroStationNumber returns a station for that axis.
C29_MacroStationAxis ==
    Returned("isMacroStationAxis")
        => /\ ~Geobrick => op.result.flag
           /\ Geobrick => (op.result.flag <=> op.axis > 8)
           /\ op.result.flag
                 <=> getAxisMacroStationNumber(
                         kind, conn, op.reply, op.addrs, op.axis,
                         op.macroAxisStartIndex).r.kind = "return"

C29_Witness ==
    /\ Returned("isMacroStationAxis")
    /\ ~Geobrick /\ conn.numAxes = 32 /\ op.axis = 32
    /\ op.result.flag

OnboardBases == {7010, 7020, 7030, 7040, 7110, 7120, 7130, 7140}

\* C30: for every on-board Geobrick axis that passes the range check,
\* getOnboardAxisI7000PlusVarsBase is 7000 + 100*floor((axis-1)/4)
\* + 10*(((axis-1) mod 4)+1) and one of 7010..7040, 7110..7140; for a
\* macro-station axis it raises.
C30_OnboardBase ==
    (Called("getOnboardAxisI7000PlusVarsBase") /\ AxesKnown
       /\ op.axis \in 0..conn.numAxes)
        => IF Geobrick /\ op.axis <= 8
           THEN /\ op.result.kind = "return"
                /\ op.result.val = 7000 + 100 * ((op.axis - 1) \div 4)
                                      + 10 * (((op.axis - 1) % 4) + 1)
                /\ op.result.val \in OnboardBases
           ELSE op.result.kind = "raise" /\ op.result.exc = "ValueError"

----------------------------------------------------------------------------
(* connect, disconnect and the cached model getters of one connection      *)
(* object, called one after another by one thread.                         *)

MaxOps == 4

\* what the link and the device do to a connect: the link cannot be opened
\* (no host set, host unknown, refused, wrong password, port in use), or it
\* opens and the "ver" exchange fails with IOError, fails with another
\* exception, brings a text that is no version number, or succeeds
LinkFaults(k) ==
    CASE k = "Ethernet" -> {"nohost", "unknownhost", "refused"}
      [] k = "Telnet" -> {"nohost", "unknownhost", "refused"}
      [] k = "Serial" -> {"portinuse"}
      [] OTHER -> {"nohost", "authfail", "refused"}

VerOutcomes(k) ==
    CASE k = "Ethernet" -> {"ver_ioerror", "ver_fault", "ver_bad", "ok"}
      [] k = "Telnet" -> {"ver_ioerror", "ver_bad", "ok"}
      [] k = "Serial" -> {"ver_ioerror", "ver_bad", "ok"}
      [] OTHER -> {"ok"}

ConnectOutcomes(k) == LinkFaults(k) \cup VerOutcomes(k)

\* "if self.isConnectionOpen:" of disconnect, without the test
discGuard_Always(c) == TRUE

\* "if self.isConnectionOpen:" of disconnect
discGuard(c) == c.isConnectionOpen

\* Telnet and Serial clear the flag before they acquire, Ethernet and SSH
\* after they release
FlagFirst(k) == k \in {"Telnet", "Serial"}

\* one step of disconnect, from the position c.pcD
disconnectStep(k, c) ==
    CASE c.pcD = "idle" ->
           IF ~discGuard(c) THEN c
           ELSE IF FlagFirst(k)
           THEN Wrote([c EXCEPT !.isConnectionOpen = FALSE,
                                !.pcD = "acquire"], "isConnectionOpen")
           ELSE [c EXCEPT !.pcD = "acquire"]
      [] c.pcD = "acquire" -> [c EXCEPT !.held = TRUE, !.pcD = "close"]
      [] c.pcD = "close" ->
           Wrote([c EXCEPT !.handle = "closed", !.closes = @ + 1,
                           !.pcD = "release"], "handle")
      [] c.pcD = "release" ->
           [c EXCEPT !.held = FALSE,
                     !.pcD = IF FlagFirst(k) THEN "idle" ELSE "flag"]
      [] OTHER ->
           Wrote([c EXCEPT !.isConnectionOpen = FALSE, !.pcD = "idle"],
                 "isConnectionOpen")

\* self.disconnect() called from connect: all its steps
RECURSIVE disconnectRest(_, _)
disconnectRest(k, c) ==
    IF c.pcD = "idle" THEN c ELSE disconnectRest(k, disconnectStep(k, c))

disconnect(k, c) == disconnectRest(k, disconnectStep(k, c))

\* the transport handle is made anew by this connect
NewHandle(c, state) ==
    Wrote([c EXCEPT !.handle = state, !.opens = @ + 1], "handle")

SetOpen(c, b) == Wrote([c EXCEPT !.isConnectionOpen = b], "isConnectionOpen")

\* PmacEthernetInterface.connect
EthernetConnect(c, o) ==
    IF c.isConnectionOpen
    THEN [c |-> c, r |-> ReturnStr("Socket is already open")]
    ELSE IF o = "nohost"
    THEN [c |-> c, r |-> ReturnStr("ERROR: hostname or port number not set")]
    ELSE IF o = "unknownhost"
    THEN [c |-> NewHandle(c, "created"),
          r |-> ReturnStr("ERROR: unknown host")]
    ELSE IF o = "refused"
    THEN [c |-> NewHandle(c, "created"),
          r |-> ReturnStr("ERROR: connection refused by host")]
    ELSE IF o = "ver_ioerror"
    THEN [c |-> disconnect("Ethernet", SetOpen(NewHandle(c, "open"), TRUE)),
          r |-> ReturnStr("Device failed to respond to a ver command")]
    ELSE IF o = "ver_fault"
    THEN [c |-> SetOpen(NewHandle(c, "open"), TRUE),
          r |-> RaiseExc("IndexError", "string index out of range")]
    ELSE IF o = "ver_bad"
    THEN [c |-> disconnect("Ethernet", SetOpen(NewHandle(c, "open"), TRUE)),
          r |-> ReturnStr("Device did not respond correctly to a ver command")]
    ELSE [c |-> SetOpen(NewHandle(c, "open"), TRUE), r |-> ReturnNone]

\* PmacTelnetInterface.connect
TelnetConnect(c, o) ==
    IF o = "nohost"
    THEN [c |-> NewHandle(c, "created"),
          r |-> ReturnStr("ERROR: Could not open telnet session. No hostname set.")]
    ELSE IF o \in {"unknownhost", "refused"}
    THEN [c |-> [NewHandle(c, "closed") EXCEPT !.closes = @ + 1],
          r |-> ReturnStr("ERROR: could not open telnet session.")]
    ELSE IF o = "ver_ioerror"
    THEN [c |-> SetOpen(SetOpen(NewHandle(c, "open"), TRUE), FALSE),
          r |-> ReturnStr("Error: did not get expected response from PMAC command ver")]
    ELSE [c |-> SetOpen(NewHandle(c, "open"), TRUE), r |-> ReturnNone]

\* PmacSerialInterface.connect
SerialConnect(c, o) ==
    IF o = "portinuse"
    THEN [c |-> Wrote(c, "n_timeouts"), r |-> ReturnStr("Port already in use!")]
    ELSE IF c.isConnectionOpen
    THEN [c |-> NewHandle(Wrote(c, "n_timeouts"), "open"),
          r |-> ReturnStr("Socket is already open")]
    ELSE IF o = "ver_ioerror"
    THEN [c |-> SetOpen(SetOpen(NewHandle(Wrote(c, "n_timeouts"), "open"),
                                TRUE), FALSE),
          r |-> RaiseExc("IOError", "send failed")]
    ELSE [c |-> SetOpen(NewHandle(Wrote(c, "n_timeouts"), "open"), TRUE),
          r |-> ReturnNone]

\* PPmacSshInterface.connect
SshConnect(c, o) ==
    IF c.isConnectionOpen
    THEN [c |-> c, r |-> ReturnStr("Already connected")]
    ELSE IF o = "nohost"
    THEN [c |-> c, r |-> ReturnStr("ERROR: hostname not set")]
    ELSE IF o = "authfail"
    THEN [c |-> NewHandle(c, "created"),
          r |-> ReturnStr("Invalid username or password")]
    ELSE IF o = "refused"
    THEN [c |-> NewHandle(c, "created"), r |-> ReturnStr("Cannot connect to")]
    ELSE [c |-> SetOpen(NewHandle(c, "open"), TRUE), r |-> ReturnNone]

connect(k, c, o) ==
    CASE k = "Ethernet" -> EthernetConnect(c, o)
      [] k = "Telnet" -> TelnetConnect(c, o)
      [] k = "Serial" -> SerialConnect(c, o)
      [] OTHER -> SshConnect(c, o)

InitConn ==
    /\ kind \in AllKinds
    /\ semaphore = 1
    /\ n_timeouts = 0
    /\ call = NoCall
    /\ ret = NoRet
    /\ pc = <<>>
    /\ job = <<>>
    /\ gen = NoGen
    /\ wire = <<>>
    /\ sockTimeout = timeout
    /\ ssh = NoSsh
    /\ conn = NoConn
    /\ op = [NoOp EXCEPT !.state = "idle"]

ConnIdle == op.state = "idle" /\ op.calls < MaxOps

ConnRest == <<kind, call, ret, pc, job, gen, wire, sockTimeout, ssh>>

\* an operation that runs from call to return in one step
ConnCall(name, g, o, cid) ==
    /\ ConnIdle
    /\ conn' = g.c
    /\ op' = [op EXCEPT !.name = name, !.calls = @ + 1, !.result = g.r,
                        !.outcome = o, !.reply = cid,
                        !.wasOpen = conn.isConnectionOpen]
    /\ UNCHANGED <<semaphore, n_timeouts>>
    /\ UNCHANGED ConnRest

\* "self.hostname in (None, "") or self.port in (None, 0)" of Ethernet,
\* "self.hostname in (None, "")" of SSH, "if self.hostname:" of Telnet;
\* Serial hands both to serial.Serial
HostSet(k, c) ==
    CASE k = "Ethernet" -> c.hostname # "" /\ c.port \notin {None, 0}
      [] k = "Serial" -> TRUE
      [] OTHER -> c.hostname # ""

Connect ==
    \E o \in ConnectOutcomes(kind) :
        /\ ConnIdle
        /\ (o = "nohost") = ~HostSet(kind, conn)
        /\ conn' = connect(kind, conn, o).c
        /\ op' = [op EXCEPT !.name = "connect", !.calls = @ + 1,
                            !.result = connect(kind, conn, o).r,
                            !.outcome = o, !.reply = NoReply,
                            !.wasOpen = conn.isConnectionOpen]
        /\ n_timeouts' = IF kind = "Serial" THEN 0 ELSE n_timeouts
        /\ UNCHANGED semaphore
        /\ UNCHANGED ConnRest

\* disconnect is called: the test of isConnectionOpen, and on Telnet and
\* Serial the clearing of the flag
DiscBegin ==
    /\ ConnIdle
    /\ conn' = disconnectStep(kind, conn)
    /\ op' = [op EXCEPT !.name = "disconnect", !.calls = @ + 1,
                        !.outcome = "", !.reply = NoReply,
                        !.wasOpen = conn.isConnectionOpen,
                        !.state = IF conn'.pcD = "idle" THEN "idle"
                                  ELSE "running",
                        !.result = IF conn'.pcD = "idle" THEN ReturnNone
                                   ELSE NoResult]
    /\ UNCHANGED <<semaphore, n_timeouts>>
    /\ UNCHANGED ConnRest

\* a later step of disconnect; the last one returns None
DiscStep(at, sem) ==
    /\ op.state = "running"
    /\ conn.pcD = at
    /\ conn' = disconnectStep(kind, conn)
    /\ semaphore' = sem
    /\ op' = IF conn'.pcD = "idle"
             THEN [op EXCEPT !.state = "idle", !.result = ReturnNone]
             ELSE op
    /\ UNCHANGED n_timeouts
    /\ UNCHANGED ConnRest

DiscAcquire == semaphore > 0 /\ DiscStep("acquire", semaphore - 1)
DiscClose == DiscStep("close", semaphore)
DiscRelease == DiscStep("release", semaphore + 1)
DiscFlag == DiscStep("flag", semaphore)

\* setConnectionParams(host, port): "self.hostname = str(host)", the port
\* as an integer, None for a port that is false
setConnectionParams(c, host, port) ==
    [c |-> [c EXCEPT !.hostname = host,
                     !.port = IF port \in {None, 0} THEN None ELSE port],
     r |-> ReturnNone]

Hosts == {"", "pmac"}
Ports == {None, 0, 1025}

SetConnectionParams ==
    \E host \in Hosts, port \in Ports :
        ConnCall("setConnectionParams", setConnectionParams(conn, host, port),
                 "", NoReply)
\* sendCommand around the SSH _sendCommand, which catches every exception
\* itself and returns: neither "except" of sendCommand is entered and the
\* response, None included, goes back with success
SshSendCommand(result) ==
    [success |-> TRUE, none |-> result.none, text |-> result.text]

\* replies of the gpascii channel to one command: a text, or the exchange
\* failed and _sendCommand returned None
SshResults ==
    {[none |-> FALSE, text |-> <<"1", "CR">>], [none |-> TRUE, text |-> <<>>]}

\* a reply, device errors, an empty chunk, a broken link, and on Serial a
\* reply that is not terminated within the timeout
ConnRx ==
    ConcRx \cup {[fault |-> FALSE, pending |-> <<>>,
                  recv |-> <<Data(Str(<<"x">>))>>, over |-> TRUE]}

\* (retStr, status) of sendCommand as a result record
CommandResult(r) ==
    [NoResult EXCEPT !.kind = r.kind, !.exc = r.exc, !.flag = r.success,
                     !.text = r.text]
SshCommandResult(r) ==
    [NoResult EXCEPT !.kind = "return", !.flag = r.success, !.text = r.text,
                     !.str = IF r.none THEN "None" ELSE ""]

\* sendCommand(command) on the open connection: the exchange assigns no
\* attribute of the object but, on Serial, the timeout counter
SendCommand ==
    /\ ConnIdle
    /\ conn.isConnectionOpen
    /\ \E c \in ConcCommands :
          \/ /\ kind \in Kinds
             /\ \E rx \in ConnRx :
                   /\ op' = [op EXCEPT
                               !.name = "sendCommand", !.calls = @ + 1,
                               !.outcome = "", !.reply = NoReply,
                               !.wasOpen = TRUE,
                               !.result = CommandResult(
                                              sendCommand(kind, c, TRUE, rx))]
                   /\ n_timeouts' = IF kind = "Serial"
                                    THEN Serial_n_timeouts(n_timeouts, rx)
                                    ELSE n_timeouts
          \/ /\ kind = "Ssh"
             /\ \E result \in SshResults :
                   op' = [op EXCEPT
                            !.name = "sendCommand", !.calls = @ + 1,
                            !.outcome = "", !.reply = NoReply,
                            !.wasOpen = TRUE,
                            !.result = SshCommandResult(SshSendCommand(result))]
             /\ n_timeouts' = n_timeouts
    /\ UNCHANGED <<conn, semaphore>>
    /\ UNCHANGED ConnRest

\* list(sendSeries(cmdLst)) on the open connection, every exchange
\* answered: the guard is taken and given back, the commands go out one
\* by one, and no attribute of the object is assigned
SendSeries ==
    /\ ConnIdle
    /\ conn.isConnectionOpen
    /\ kind \in Kinds
    /\ semaphore > 0
    /\ \E l \in CmdLsts :
          op' = [op EXCEPT !.name = "sendSeries", !.calls = @ + 1,
                           !.outcome = "", !.reply = NoReply,
                           !.wasOpen = TRUE,
                           !.sent = [i \in 1..Len(l) |-> l[i].command],
                           !.result = NoResult]
    /\ UNCHANGED <<conn, semaphore, n_timeouts>>
    /\ UNCHANGED ConnRest

\* the replies to "i20 i21 i22 i23 " drawn here
ConnIVars ==
    {Reply(IVarsText(<<"$78400", "$0", "$0", "$0">>)),
     Reply(IVarsText(<<"$78400", "$78400", "$0", "$0">>)),
     NoReply}

GetNumberOfAxes ==
    /\ kind \in Kinds
    /\ \E cid \in CidReplies(kind), iv \in ConnIVars :
          ConnCall("getNumberOfAxes", getNumberOfAxes(kind, conn, cid, iv),
                   "", cid)

GetPmacModelCode ==
    \E cid \in CidReplies(kind) :
        ConnCall("getPmacModelCode", getPmacModelCode(kind, conn, cid), "", cid)

GetPmacModel ==
    \E cid \in CidReplies(kind) :
        ConnCall("getPmacModel", getPmacModel(kind, conn, cid), "", cid)

GetShortModelName ==
    \E cid \in CidReplies(kind) :
        ConnCall("getShortModelName", getShortModelName(kind, conn, cid),
                 "", cid)

IsModelGeobrick ==
    \E cid \in CidReplies(kind) :
        ConnCall("isModelGeobrick", isModelGeobrick(kind, conn, cid), "", cid)

NextConn ==
    \/ Connect
    \/ DiscBegin
    \/ DiscAcquire
    \/ DiscClose
    \/ DiscRelease
    \/ DiscFlag
    \/ SetConnectionParams
    \/ SendCommand
    \/ SendSeries
    \/ GetNumberOfAxes
    \/ GetPmacModelCode
    \/ GetPmacModel
    \/ GetShortModelName
    \/ IsModelGeobrick

SpecConn == InitConn /\ [][NextConn]_vars

----------------------------------------------------------------------------
(* Claims about connect, disconnect and the model getters, under SpecConn. *)

\* this step is the call of disconnect
DisconnectCalled == op.state = "idle" /\ op'.name = "disconnect"
                      /\ op'.calls = op.calls + 1

\* disconnect has returned
DisconnectDone == op.name = "disconnect" /\ op.state = "idle"

\* C21: on a connection that is not open disconnect touches neither the
\* guard nor the handle and returns; on an open connection it closes the
\* handle and leaves isConnectionOpen False; a second disconnect changes
\* nothing. For every transport.
C21_DisconnectIdempotent ==
    [][/\ (DisconnectCalled /\ ~conn.isConnectionOpen)
           => (conn' = conn /\ semaphore' = semaphore
                 /\ op'.state = "idle" /\ op'.result = ReturnNone)
       /\ (op'.name = "disconnect" /\ op'.state = "idle" /\ op'.wasOpen)
           => (conn'.handle = "closed" /\ ~conn'.isConnectionOpen
                 /\ semaphore' = 1)]_vars

\* a second disconnect has returned after a first one closed the handle
C21_Witness ==
    /\ DisconnectDone /\ ~op.wasOpen
    /\ conn.closes = 1 /\ conn.handle = "closed"
    /\ op.calls = 3

\* C22: no field of the shared connection state (isConnectionOpen, the
\* cached model code, name and short name, the cached axis count, the
\* timeout counter, the transport handle) is written except by a caller
\* that holds the guard.
C22_WritesUnderGuard == conn.unguarded = {}

\* connect ran on a connection that was not open
ConnectTried == op.name = "connect" /\ ~op.wasOpen

\* C23: every connection error of connect (unset or unresolved host,
\* refused connection, authentication failure, port in use, failed "ver"
\* handshake) is returned as a string, not raised, and leaves
\* isConnectionOpen False; connect returns None only when the connection
\* ends open.
C23_ConnectErrorsReturned ==
    /\ (ConnectTried /\ op.outcome \in LinkFaults(kind) \cup {"ver_ioerror"})
          => /\ op.result.kind = "return"
             /\ op.result.str # "None"
             /\ ~conn.isConnectionOpen
    /\ (op.name = "connect" /\ op.result = ReturnNone)
          => conn.isConnectionOpen

\* C24: after one call of getPmacModelCode has parsed the reply to "cid",
\* every later call returns that integer and sends no further "cid"; a
\* failed or malformed reply leaves the cache empty, and the next call
\* asks again. On every transport.
C24_ModelCodeMemoized ==
    [][(op.state = "idle" /\ op'.name = "getPmacModelCode"
          /\ op'.calls = op.calls + 1)
         => IF conn.pmacModelCode # None
            THEN /\ op'.result = ReturnInt(conn.pmacModelCode)
                 /\ conn' = conn
            ELSE /\ conn'.cidSent = conn.cidSent + 1
                 /\ op'.result.kind = "raise"
                       => conn'.pmacModelCode = None
                 /\ op'.result.kind = "return"
                       => op'.result = ReturnInt(conn'.pmacModelCode)]_vars

\* the table name of a model code on this transport, "" for none
KnownModelName(code) ==
    IF kind = "Ssh"
    THEN (IF code = 604020 THEN "Power PMAC UMAC" ELSE "")
    ELSE IF code = 602404 THEN "Turbo PMAC2 Clipper"
    ELSE IF code = 602413 THEN "Turbo PMAC2-VME"
    ELSE IF code = 603382 THEN "Geo Brick (3U Turbo PMAC2)"
    ELSE ""

\* C25: with the model code known, getPmacModel returns the table name of
\* a known code (603382 gives "Geo Brick (3U Turbo PMAC2)", 604020 on SSH
\* gives "Power PMAC UMAC") and raises the unsupported-model error for an
\* unknown code, leaving the cached name unset; getShortModelName never
\* raises for an unknown code and gives "Pmac".
C25_ModelLookup ==
    /\ (op.name = "getPmacModel" /\ conn.pmacModelCode # None)
          => IF KnownModelName(conn.pmacModelCode) # ""
             THEN op.result = ReturnStr(KnownModelName(conn.pmacModelCode))
             ELSE /\ op.result.kind = "raise"
                  /\ op.result.exc = "ValueError"
                  /\ conn.pmacModelName = "None"
    /\ (op.name = "getShortModelName" /\ conn.pmacModelCode # None)
          => /\ op.result.kind = "return"
             /\ conn.pmacModelCode \notin {602404, 602413, 603382}
                   => op.result = ReturnStr("Pmac")

----------------------------------------------------------------------------
(* Claims about the Ethernet reply in several chunks and the macro-station *)
(* table index.                                                            *)

\* the reply comes in several chunks, the last of which ends in CR ACK
SeveralChunks ==
    /\ EthReplied
    /\ Decode(FirstChunk).kind = "return"
    /\ FirstChunk # <<>>
    /\ Len(Rest) >= 1
    /\ CleanRest
    /\ TLast(Chunk(Len(Rest))) = CHAR_ACK
    /\ TPrev(Acc(Len(Rest))) = CHAR_RETURN

\* C40: an Ethernet reply delivered in several chunks whose last chunk
\* ends in CR ACK is returned as the concatenation of all chunks, wherever
\* the chunk boundaries fall; an intermediate chunk ending in CR or ACK
\* neither ends the exchange early nor makes it fail.
C40_ChunkedReply ==
    (call.op = "done" /\ SeveralChunks) => ret = Success(Acc(Len(Rest)))

\* the position getAxisMacroStationNumber reads the table at
TableIndex(geobrick, axis) == IF geobrick THEN (axis - 8) - 1 ELSE axis - 1

\* C39: for every axis checkAxisIsInRange accepts with an auto-detected
\* axis count, the index getAxisMacroStationNumber uses into the 34-entry
\* table is between 0 and 33, axis 0 included.
C39_TableIndexInRange ==
    (Called("getAxisMacroStationNumber") /\ AxesKnown
       /\ op.axis \in 0..conn.numAxes /\ ~(Geobrick /\ op.axis <= 8))
        => /\ TableIndex(Geobrick, op.axis) \in 0..33
           /\ op.result = ReturnInt(
                  MACRO_STATION_LOOKUP_TABLE[TableIndex(Geobrick, op.axis) + 1]
                    + (IF Geobrick THEN op.macroAxisStartIndex ELSE 0))

----------------------------------------------------------------------------
(* disableLimits: Ixx24 is read, and written back with bit 0x20000 changed *)
(* when the limits are not in the state asked for.                         *)

MaxMotor == 2

HexLower == <<"0", "1", "2", "3", "4", "5", "6", "7", "8", "9",
              "a", "b", "c", "d", "e", "f">>
HexUpper == <<"0", "1", "2", "3", "4", "5", "6", "7", "8", "9",
              "A", "B", "C", "D", "E", "F">>

IsHexDigit(ch) == \E i \in 1..16 : ch = HexLower[i] \/ ch = HexUpper[i]
HexDigitVal(ch) ==
    (CHOOSE i \in 1..16 : ch = HexLower[i] \/ ch = HexUpper[i]) - 1

\* int(s, 16) of a run of hexadecimal digits
RECURSIVE HexVal(_)
HexVal(s) ==
    IF s = <<>> THEN 0
    ELSE 16 * HexVal(SubSeq(s, 1, Len(s) - 1)) + HexDigitVal(s[Len(s)])

\* hex(n) without its "0x": lower-case digits, no leading zero
RECURSIVE Hex(_)
Hex(n) ==
    IF n < 16 THEN <<HexLower[n + 1]>>
    ELSE Hex(n \div 16) \o <<HexLower[(n % 16) + 1]>>

\* retStr.strip("$\r\x06")
RECURSIVE StripLimits(_)
StripLimits(s) ==
    IF s = <<>> THEN s
    ELSE IF s[1] \in {"$", CHAR_RETURN, CHAR_ACK} THEN StripLimits(Tail(s))
    ELSE IF s[Len(s)] \in {"$", CHAR_RETURN, CHAR_ACK}
    THEN StripLimits(SubSeq(s, 1, Len(s) - 1))
    ELSE s

\* 0x20000, the bit of Ixx24 that disables the limits
LIMIT_BIT == 131072

BitSet(v) == (v \div LIMIT_BIT) % 2 = 1
\* v | 0x20000 and v ^ 0x20000
OrBit(v) == IF BitSet(v) THEN v ELSE v + LIMIT_BIT
XorBit(v) == IF BitSet(v) THEN v - LIMIT_BIT ELSE v + LIMIT_BIT

\* "i" + motor + "24" and "i" + motor + "24=" + value
ReadIxx24(motor) ==
    [ivar |-> motor * 100 + 24, write |-> FALSE, value |-> <<>>]
WriteIxx24(motor, digits) ==
    [ivar |-> motor * 100 + 24, write |-> TRUE, value |-> <<"$">> \o digits]

ReturnTuple(cmd, text, status) ==
    [NoResult EXCEPT !.kind = "return", !.str = "tuple", !.cmd = cmd,
                     !.text = text, !.flag = status]

\* the write of Ixx24 and what disableLimits returns after it
LimitsWrite(motor, v, second) ==
    [sent |-> <<ReadIxx24(motor), WriteIxx24(motor, Hex(v))>>,
     r |-> ReturnTuple(<<WriteIxx24(motor, Hex(v))>>, second.text,
                       second.success)]

\* disableLimits with Ixx24 read as the number v, writing on every call
disableLimits_value_Always(motor, disable, v, second) ==
    LimitsWrite(motor, IF disable THEN OrBit(v) ELSE XorBit(v), second)

\* disableLimits with Ixx24 read as the number v
disableLimits_value(motor, disable, v, second) ==
    IF ~BitSet(v) /\ disable THEN LimitsWrite(motor, OrBit(v), second)
    ELSE IF BitSet(v) /\ ~disable THEN LimitsWrite(motor, XorBit(v), second)
    ELSE [sent |-> <<ReadIxx24(motor)>>, r |-> ReturnTuple(<<>>, <<>>, FALSE)]

\* disableLimits once the read of Ixx24 came back stripped as digits
disableLimits_digits(motor, disable, digits, second) ==
    IF digits = <<>> \/ \E i \in 1..Len(digits) : ~IsHexDigit(digits[i])
    THEN [sent |-> <<ReadIxx24(motor)>>,
          r |-> RaiseExc("ValueError", "invalid literal for int()")]
    ELSE disableLimits_value(motor, disable, HexVal(digits), second)

\* RemotePmacInterface.disableLimits; first and second are what
\* sendCommand hands back for the read and for the write
disableLimits(motor, disable, first, second) ==
    IF ~first.success
    THEN [sent |-> <<ReadIxx24(motor)>>, r |-> ReturnInt(1)]
    ELSE disableLimits_digits(motor, disable, StripLimits(first.text), second)

\* values of Ixx24 a PMAC may hold
Ixx24Values == {0, 1, 131072, 131073, 262143, 8389633, 8520705, 16777215}

UpperHex(s) == [i \in 1..Len(s) |-> HexUpper[HexDigitVal(s[i]) + 1]]

Ixx24Text(v) == <<"$">> \o UpperHex(Hex(v)) \o <<CHAR_RETURN, CHAR_ACK>>

Ixx24Replies ==
    {Reply(Ixx24Text(v)) : v \in Ixx24Values}
      \cup {Reply(<<CHAR_BELL, "E", "R", "R", "0", "0", "3", CHAR_RETURN>>),
            NoReply}

WriteReplies == {Reply(<<CHAR_ACK>>), NoReply}

InitLimits ==
    /\ kind \in Kinds
    /\ semaphore = 1
    /\ n_timeouts = 0
    /\ call = NoCall
    /\ ret = NoRet
    /\ pc = <<>>
    /\ job = <<>>
    /\ gen = NoGen
    /\ wire = <<>>
    /\ sockTimeout = timeout
    /\ ssh = NoSsh
    /\ conn = [NoConn EXCEPT !.isConnectionOpen = TRUE, !.handle = "open"]
    /\ \E motor \in 1..MaxMotor, disable \in BOOLEAN,
          first \in Ixx24Replies, second \in WriteReplies :
          op = [NoOp EXCEPT !.state = "ready", !.axis = motor,
                            !.disable = disable, !.reply = first,
                            !.addrs = second]

DisableLimits ==
    /\ op.state = "ready"
    /\ op' = [op EXCEPT
                !.name = "disableLimits", !.state = "done",
                !.sent = disableLimits(op.axis, op.disable, op.reply,
                                       op.addrs).sent,
                !.result = disableLimits(op.axis, op.disable, op.reply,
                                         op.addrs).r]
    /\ UNCHANGED <<kind, semaphore, n_timeouts, call, ret, pc, job, gen,
                   wire, sockTimeout, ssh, conn>>

NextLimits == DisableLimits

SpecLimits == InitLimits /\ [][NextLimits]_vars

\* disableLimits ran and its read of Ixx24 brought "$", hexadecimal
\* digits, CR, ACK
LimitsRead ==
    /\ op.name = "disableLimits"
    /\ op.reply.success
    /\ Len(op.reply.text) >= 4
    /\ op.reply.text[1] = "$"
    /\ \A i \in 2..(Len(op.reply.text) - 2) : IsHexDigit(op.reply.text[i])
    /\ op.reply.text[Len(op.reply.text) - 1] = CHAR_RETURN
    /\ op.reply.text[Len(op.reply.text)] = CHAR_ACK

\* the number read, from the reply text, and the number written, from the
\* command text
ReadValue == HexVal(SubSeq(op.reply.text, 2, Len(op.reply.text) - 2))
WrittenValue == HexVal(Tail(op.sent[2].value))

\* C31: disableLimits writes Ixx24 only when the state asked for differs
\* from the state read back (bit 0x20000); the value written differs from
\* the value read in that bit only; when the state asked for is already in
\* force nothing is written and ("", "", False) is returned.
C31_DisableLimits ==
    LimitsRead =>
        IF ((ReadValue \div 131072) % 2 = 1) = op.disable
        THEN /\ Len(op.sent) = 1
             /\ op.result = ReturnTuple(<<>>, <<>>, FALSE)
        ELSE /\ Len(op.sent) = 2
             /\ ~op.sent[1].write
             /\ op.sent[2].write /\ op.sent[2].ivar = op.axis * 100 + 24
             /\ WrittenValue = IF op.disable THEN ReadValue + 131072
                               ELSE ReadValue - 131072
             /\ op.result.cmd = <<op.sent[2]>>

C31_Witness ==
    /\ LimitsRead /\ op.disable
    /\ op.reply.text = <<"$", "8", "2", "0", "4", "0", "1", "CR", "ACK">>
    /\ op.result = ReturnTuple(<<>>, <<>>, FALSE)

----------------------------------------------------------------------------
(* The SSH exchange as sendCommand reports it.                             *)


\* an exchange on the gpascii channel ended because send or recv raised
SshExchangeFailed == kind = "Ssh" /\ ssh.phase = "done" /\ ssh.result.none

\* C32: on SSH an exchange in which sending or receiving on the gpascii
\* channel fails makes sendCommand report failure; a failed exchange is
\* never reported as a successful reply.
C32_SshFailureReported ==
    SshExchangeFailed => ~SshSendCommand(ssh.result).success

----------------------------------------------------------------------------
(* Claims about the "ver" handshake, connect on an open connection and    *)
(* the cached model data, under SpecConn.                                  *)

\* connect opened the link and the "ver" exchange failed or brought a text
\* that is no version number
HandshakeFailed == ConnectTried /\ op.outcome \in {"ver_ioerror", "ver_bad"}

\* C33: when the "ver" handshake after a successful link open fails (I/O
\* fault, or a reply that is no version number), connect tears the
\* connection down on every transport: isConnectionOpen is False and the
\* handle opened by this connect has been closed.
C33_HandshakeTeardown ==
    HandshakeFailed => (~conn.isConnectionOpen /\ conn.handle = "closed")

\* this step is a call of connect on an open connection
ConnectOnOpen ==
    /\ op.state = "idle" /\ op'.name = "connect"
    /\ op'.calls = op.calls + 1
    /\ conn.isConnectionOpen

AlreadyOpenMessages ==
    {ReturnStr("Socket is already open"), ReturnStr("Already connected")}

\* C34: connect on a connection that is already open returns an
\* already-open message, leaves isConnectionOpen True and changes nothing
\* else: no new handle is opened, the handle is not replaced, the timeout
\* counter is not reset (Ethernet, SSH and Serial).
C34_ConnectOnOpenIsNoOp ==
    [][(ConnectOnOpen /\ kind \in {"Ethernet", "Ssh", "Serial"})
         => /\ op'.result \in AlreadyOpenMessages
            /\ conn'.isConnectionOpen
            /\ conn'.opens = conn.opens
            /\ conn'.handle = conn.handle
            /\ n_timeouts' = n_timeouts]_vars

\* the cached model code, model name, short name, Geobrick flag and axis
\* count
CachesOf(c) ==
    <<c.pmacModelCode, c.pmacModelName, c.shortModelName, c.isModelGeobrick,
      c.numAxes>>

FrameOps ==
    {"sendCommand", "sendSeries", "disconnect", "setConnectionParams",
     "connect"}

\* this step is the call of the getter name
GetterCalled(name) ==
    op.state = "idle" /\ op'.name = name /\ op'.calls = op.calls + 1

\* the device is not asked
NothingSent ==
    conn'.cidSent = conn.cidSent /\ conn'.ivarsSent = conn.ivarsSent

\* C35: the cached model code, model name, short name, Geobrick flag and
\* axis count, once populated, are changed by no operation: sendCommand,
\* sendSeries, disconnect, setConnectionParams and connect leave them as
\* they are, and a getter whose value is cached returns that value without
\* asking the device, also after a disconnect and a new connect.
C35_CachesKept ==
    [][/\ op'.name \in FrameOps => CachesOf(conn') = CachesOf(conn)
       /\ conn.pmacModelCode # None
             => conn'.pmacModelCode = conn.pmacModelCode
       /\ conn.pmacModelName # "None"
             => conn'.pmacModelName = conn.pmacModelName
       /\ conn.shortModelName # "None"
             => conn'.shortModelName = conn.shortModelName
       /\ conn.isModelGeobrick # "None"
             => conn'.isModelGeobrick = conn.isModelGeobrick
       /\ conn.numAxes # None => conn'.numAxes = conn.numAxes
       /\ (GetterCalled("getPmacModelCode") /\ conn.pmacModelCode # None)
             => (op'.result = ReturnInt(conn.pmacModelCode) /\ NothingSent)
       /\ (GetterCalled("getPmacModel") /\ conn.pmacModelName # "None")
             => (op'.result = ReturnStr(conn.pmacModelName) /\ NothingSent)
       /\ (GetterCalled("getShortModelName") /\ conn.shortModelName # "None")
             => (op'.result = ReturnStr(conn.shortModelName) /\ NothingSent)
       /\ (GetterCalled("getNumberOfAxes") /\ conn.numAxes # None)
             => (op'.result = ReturnInt(conn.numAxes) /\ NothingSent)]_vars

\* the same on the transports of the base class alone
C35_CachesKept_Base ==
    [][(kind \in Kinds) =>
        (/\ op'.name \in FrameOps => CachesOf(conn') = CachesOf(conn)
         /\ (GetterCalled("getPmacModelCode") /\ conn.pmacModelCode # None)
               => (op'.result = ReturnInt(conn.pmacModelCode) /\ NothingSent)
         /\ (GetterCalled("getNumberOfAxes") /\ conn.numAxes # None)
               => (op'.result = ReturnInt(conn.numAxes)
                     /\ NothingSent))]_vars

----------------------------------------------------------------------------
(* SpecGuard: every user of the guard on one open connection. Threads      *)
(* 1..NGuardCallers call sendCommand(command), on SSH also getFile,        *)
(* putFile and sendSshCommand, with shouldWait = True; the consumer        *)
(* (thread 0) drives a sendSeries generator and also calls sendCommand     *)
(* itself; one more thread calls disconnect. The steps are those of Spec   *)
(* and of SpecConn.                                                        *)

NGuardCallers == 1

GuardThreads == {Consumer} \cup (1..NGuardCallers)

InitGuard ==
    /\ kind \in AllKinds
    /\ semaphore = 1
    /\ n_timeouts = 0
    /\ call = NoCall
    /\ ret = NoRet
    /\ pc = [t \in GuardThreads |-> "idle"]
    /\ job = [t \in GuardThreads |-> <<>>]
    /\ gen = NoGen
    /\ wire = {}
    /\ sockTimeout = timeout
    /\ ssh = NoSsh
    /\ conn = [NoConn EXCEPT !.isConnectionOpen = TRUE, !.handle = "open",
                             !.opens = 1, !.hostname = "pmac", !.port = 1025]
    /\ op = [NoOp EXCEPT !.state = "idle"]

\* the generator's frame is running: the consumer is inside next()
FrameRunning == gen.state \in {"acquire", "write", "read", "finish"}

\* the consumer is not inside a call of sendCommand
ConsumerFree == pc[Consumer] = "idle"

\* sendCommand is called; the consumer can call it between two next()
GuardCall(t) == (t = Consumer => ~FrameRunning) /\ Call(t)

\* the exchange of Ethernet, Telnet and Serial
GuardWrite(t) == kind \in Kinds /\ Write(t)
GuardRead(t) == kind \in Kinds /\ Read(t)

SshHelpers == {<<"sendCommand">>, <<"getFile">>, <<"putFile">>,
               <<"sendSshCommand">>}

\* PPmacSshInterface: between acquire and release _sendCommand, getFile,
\* putFile and sendSshCommand do their work and catch every Exception
SshWork(t) ==
    /\ kind = "Ssh"
    /\ pc[t] = "write"
    /\ \E h \in SshHelpers : job' = [job EXCEPT ![t] = h]
    /\ pc' = [pc EXCEPT ![t] = "release"]
    /\ UNCHANGED <<conn, op, sockTimeout, ssh, kind, semaphore, n_timeouts,
                   call, ret, gen, wire>>

\* close() on a generator that has ended, with a release
SeriesCloseEnded_Release ==
    /\ gen.state \in {"done", "closed", "dead"}
    /\ semaphore' = semaphore + 1
    /\ UNCHANGED <<conn, op, sockTimeout, ssh, kind, n_timeouts, call, ret,
                   pc, job, gen, wire>>

\* close() on a generator that has ended (exhausted, closed, or ended by
\* an exception): no code of sendSeries runs
SeriesCloseEnded ==
    /\ gen.state \in {"done", "closed", "dead"}
    /\ UNCHANGED <<conn, op, sockTimeout, ssh, kind, semaphore, n_timeouts,
                   call, ret, pc, job, gen, wire>>

\* what the consumer does with its generator, between its own calls
GuardSeriesCreate == ConsumerFree /\ kind \in Kinds /\ SeriesCreate
GuardSeriesNext == ConsumerFree /\ SeriesNext
GuardSeriesClose == ConsumerFree /\ SeriesClose
GuardSeriesThrow == ConsumerFree /\ SeriesThrow
GuardSeriesCloseEnded == ConsumerFree /\ SeriesCloseEnded

\* "self.semaphore.acquire()" of disconnect without the wait
DiscAcquire_NoWait == DiscStep("acquire", semaphore)

\* "self.semaphore.acquire()" of disconnect
GuardDiscAcquire == semaphore > 0 /\ DiscStep("acquire", semaphore - 1)

NextGuard ==
    \/ \E t \in GuardThreads :
          \/ GuardCall(t)
          \/ Acquire(t)
          \/ GuardWrite(t)
          \/ GuardRead(t)
          \/ SshWork(t)
          \/ Release(t)
    \/ GuardSeriesCreate
    \/ GuardSeriesNext
    \/ GenAcquire
    \/ GenWrite
    \/ GenRead
    \/ GenFinish
    \/ GuardSeriesClose
    \/ GuardSeriesThrow
    \/ GuardSeriesCloseEnded
    \/ DiscBegin
    \/ GuardDiscAcquire
    \/ DiscClose
    \/ DiscRelease
    \/ DiscFlag

SpecGuard == InitGuard /\ [][NextGuard]_vars

\* every exchange terminates, every release is reached, a thread waiting
\* for the guard gets it if it is free again and again, and the consumer
\* goes on to exhaust or close the iteration it has open
FairGuard ==
    /\ \A t \in GuardThreads :
          /\ SF_vars(Acquire(t))
          /\ WF_vars(GuardWrite(t))
          /\ WF_vars(GuardRead(t))
          /\ WF_vars(SshWork(t))
          /\ WF_vars(Release(t))
    /\ SF_vars(GenAcquire)
    /\ WF_vars(GenWrite)
    /\ WF_vars(GenRead)
    /\ WF_vars(GenFinish)
    /\ SF_vars(GuardSeriesNext \/ GuardSeriesClose)
    /\ SF_vars(GuardDiscAcquire)
    /\ WF_vars(DiscClose)
    /\ WF_vars(DiscRelease)
    /\ WF_vars(DiscFlag)

SpecGuardLive == SpecGuard /\ FairGuard

----------------------------------------------------------------------------
(* Claims about the guard, under SpecGuard and SpecGuardLive.              *)

\* C36: the guard's permit count is 0 or 1 in every reachable state: no
\* sequence of sendCommand, sendSeries (never started, exhausted, closed
\* at a yield, closed again after it ended), getFile, putFile,
\* sendSshCommand and disconnect releases the guard more often than it
\* was acquired.
C36_PermitCount == semaphore \in {0, 1}

\* a generator that was closed at a yield is closed once more while a
\* caller holds the guard
C36_Witness ==
    /\ gen.state = "closed" /\ gen.released = 1
    /\ \E t \in GuardThreads : pc[t] = "release"
    /\ conn.closes = 1

\* a thread waits for the guard in sendCommand
Waits(t) == pc[t] = "acquire"

\* C37: if every exchange terminates and the consumer of sendSeries
\* exhausts or closes its iteration, every caller blocked in
\* sendCommand(shouldWait=True) or in disconnect gets the guard in the end
\* and completes, also a caller that has an iteration of its own open.
C37_BlockedCallersProceed ==
    /\ \A t \in GuardThreads : Waits(t) ~> (pc[t] = "idle")
    /\ (conn.pcD = "acquire") ~> (conn.pcD = "idle")

\* an exchange or an iteration is in flight
ExchangeInFlight ==
    \/ \E t \in GuardThreads : pc[t] \in {"write", "read", "release"}
    \/ wire # {}
    \/ gen.state \in {"write", "read", "suspended", "finish"}

\* disconnect is at its close, or between its close and its release
DiscHolds == conn.pcD \in {"close", "release"}

\* C38: disconnect closes the handle only while it holds the guard: no
\* exchange of another caller and no open sendSeries iteration is in
\* flight when the handle is closed; disconnect waits for them.
C38_CloseUnderGuard ==
    DiscHolds => (conn.held /\ semaphore = 0 /\ ~ExchangeInFlight)

\* disconnect has closed the handle after it waited for an iteration that
\* had sent a command
C38_Witness ==
    /\ conn.pcD = "release" /\ conn.handle = "closed"
    /\ gen.state = "closed" /\ gen.sent >= 1

====
